---- MODULE Spec2Model ----
(***************************************************************************)
(* Run state machine of the scrape orchestration core.                     *)
(*                                                                         *)
(* The model follows app/workers/tasks.py::execute_run as Python executes  *)
(* it.  Two facts of the source shape everything below:                    *)
(*                                                                         *)
(*  1. Inside the escalation loop the body of the `try` is only the        *)
(*     adapter call (tasks.py:405-415).  The code that handles the         *)
(*     adapter's result (tasks.py:423-694: success, persistence,           *)
(*     escalation decision, pause or fail) is indented under the first     *)
(*     `except Exception` clause AFTER its `raise` (tasks.py:421), and     *)
(*     the second `except Exception` clause (tasks.py:696-742) is          *)
(*     shadowed by the first.  Neither is ever executed: a normal return   *)
(*     of the adapter goes straight back to the `while` test with          *)
(*     escalation_count still 0, and an exception is re-raised to the      *)
(*     top-level handler (tasks.py:750-779).                               *)
(*                                                                         *)
(*  2. InterventionEngine.create_intervention reads                        *)
(*     intervention_spec["trigger_reason"] (intervention_engine.py:195),   *)
(*     while the session probe passes specs keyed "reason"                 *)
(*     (session_probe.py:151-160, 178-189): the call raises KeyError.      *)
(*                                                                         *)
(* The environment supplies what the program reads but does not write on   *)
(* these paths: the Job row, the DomainConfig row of the Job's domain, a   *)
(* stored session, the probe's HTTP answer and the adapters' outcomes.     *)
(***************************************************************************)
EXTENDS Integers, Sequences, FiniteSets, TLC

\* ---------------------------------------------------------------- bounds
NumRuns == 1
NumWorkers == 2
\* adapter executions of one invocation are counted up to MaxExec and the
\* counter then saturates (the loop itself goes on)
MaxExec == 4
\* how often the broker may hand out the message of a run again
MaxRedeliver == 1

\* the clock advances TickMinutes at a time, MaxTicks times
TickMinutes == 61
MaxTicks == 2
\* the uses a session loaded from disk starts with
SeedUses == 80
\* how often one session is marked beyond the uses it started with
MaxMarks == 3
\* mark_failure calls in a row
MaxFailures == 11
\* threads of one process that call the session pool, and calls per thread
NumThreads == 2
MaxThreadCalls == 2
\* calls of the several-site manager other than mark_failure
MaxManagerCalls == 3
\* rows of the intervention_tasks table
MaxTasks == 2
\* highest selector_version a FieldMap is taken to
MaxVersion == 4
\* calls of update_domain_stats for the domain
MaxAttempts == 4
\* requests to resolve an intervention that are under way at once
NumRequests == 2

Runs == 1..NumRuns
Workers == 1..NumWorkers

\* ------------------------------------------------------ program constants
max_escalations == 3
BLOCK_RATE_THRESHOLD_PCT == 80
\* scraping/session_manager.py, SessionLifecycleManager
TRUST_DEGRADED == 40
TRUST_RETIRED == 40
MAX_AGE_MINUTES == 120
MAX_FAILURE_STREAK == 3
MAX_USES == 100
HARD_CAP_USES == 200
CIRCUIT_FAILURE_THRESHOLD == 10
CIRCUIT_COOLDOWN_MINUTES == 30
MAX_PERSISTED_AGE_HOURS == 24

TIER_ORDER == <<"http", "playwright", "provider">>

RunStatus == {"queued", "running", "waiting_for_human", "failed", "completed"}
FailureCode == {"blocked", "rate_limited", "timeout", "network", "bad_response", "unknown"}

\* ------------------------------------------------------- environment data
NoConfig == [present |-> FALSE, access_class |-> "public", requires_session |-> "no", block_rate_403 |-> 0]

DomainConfigs ==
    {NoConfig} \cup
    [present : {TRUE},
     access_class : {"public", "infra", "human"},
     requires_session : {"no", "optional", "required"},
     block_rate_403 : {0, BLOCK_RATE_THRESHOLD_PCT}]

NoSession == [present |-> FALSE, is_valid |-> FALSE, health_status |-> "unknown"]
ValidSession == [present |-> TRUE, is_valid |-> TRUE, health_status |-> "valid"]

\* answers of the HEAD probe: a status code, or a transport error
ProbeResponses == {"200", "401", "403", "404", "error"}

\* what an adapter hands back: items, no items, or an exception class
AdapterExceptions == {"TimeoutException", "NetworkError", "ValueError", "HTTPStatusError"}

\* the status code the site (for the provider engine: the provider's API)
\* answers the adapter's request with
SiteResponses == {200, 403, 429}
AdapterOutcomes == {"items", "empty"} \cup AdapterExceptions

VARIABLES
    jobs,           \* run id -> the Job row of the run (and its domain's DomainConfig)
    status,         \* run id -> Run.status, "absent" before the Run row exists
    failure_code,   \* run id -> Run.failure_code ("none" = NULL)
    error_message,  \* run id -> Run.error_message ("none" = NULL)
    events,         \* run id -> RunEvent messages of the run, in insertion order
    records,        \* run id -> Records of the run, in insertion order
    interventions,  \* the intervention_tasks table, id = position
    vault,          \* run id -> stored session of the Job's domain
    queue,          \* broker: run id -> number of deliverable runs.execute messages
    redelivered,    \* run id -> number of redeliveries so far
    wk,             \* worker -> the execute_run invocation it is in
    pol,            \* one evaluation of the escalation policy: its inputs and its result
    stats,          \* engine -> the DomainStats row of (the domain, engine)
    stats0,         \* the domain_stats table as it was at the start
    sw,             \* worker -> the record_run_outcome call it is in
    made,           \* <<engine, success>> -> record_run_outcome calls that committed
    raised,         \* engine -> record_run_outcome calls that ended in an exception
    pool,           \* proxy identity -> the pooled BrowserSession of (the site, proxy)
    circuit,        \* the site's SiteCircuitBreaker
    now,            \* the clock, in minutes
    last,           \* the session pool operation that was called last, and its result
    retired,        \* proxy identity -> its session was auto-retired and none created since
    in_a_row,       \* mark_failure calls for the site since the last mark_success
    tr,             \* the trust computation under check: its inputs and scores
    th,             \* thread -> the session pool call it is in, and what it has read
    total_requests, \* SessionLifecycleManager._total_requests
    finished,       \* mark_failure and mark_success calls that have returned
    orig,           \* the BrowserSession that mark_success persists
    disk,           \* the session directory: file name -> JSON document
    loaded,         \* the pool a restarted manager has loaded: key -> BrowserSession
    dpc,            \* persistence: "new", "persisted", "restarted"
    fm,             \* the FieldMap row that update_selector and rollback_selector load
    mgr,            \* a SessionLifecycleManager for several sites, and its session directory
    bc,             \* one call of BlockClassifier.should_pause_for_intervention: inputs and result
    dcfg,           \* the DomainConfig row of one domain, and the attempts recorded for it
    rq              \* request -> the resolve_intervention request it is in, and what it has read

run_vars == <<jobs, status, failure_code, error_message, events, records, interventions, vault, queue, redelivered, wk>>
pol_vars == <<pol>>
\* what the run loop's operations leave alone
stats_vars == <<stats, stats0, sw, made, raised>>
pool_vars == <<pool, circuit, now, last, retired, in_a_row, tr>>
conc_vars == <<th, total_requests, finished>>
\* the components added to the first three
disk_vars == <<orig, disk, loaded, dpc>>
fm_vars == <<fm>>
mgr_vars == <<mgr>>
aux_vars == <<bc, dcfg, rq>>
ext_vars == <<conc_vars, disk_vars, fm_vars, mgr_vars, aux_vars>>
lib_vars == <<pol_vars, stats_vars, pool_vars, ext_vars>>
\* what the operations of one component leave alone
pol_frame == <<run_vars, stats_vars, pool_vars, ext_vars>>
stats_frame == <<run_vars, pol_vars, pool_vars, ext_vars>>
pool_frame == <<run_vars, pol_vars, stats_vars, ext_vars>>
conc_frame == <<run_vars, pol_vars, stats_vars, now, last, retired, in_a_row, tr, disk_vars, fm_vars, mgr_vars, aux_vars>>
disk_frame == <<run_vars, pol_vars, stats_vars, pool, circuit, last, retired, in_a_row, tr, conc_vars, fm_vars, mgr_vars, aux_vars>>
fm_frame == <<run_vars, pol_vars, stats_vars, pool_vars, conc_vars, disk_vars, mgr_vars, aux_vars>>
bc_frame == <<run_vars, pol_vars, stats_vars, pool_vars, conc_vars, disk_vars, fm_vars, mgr_vars, dcfg, rq>>
dcfg_frame == <<run_vars, pol_vars, stats_vars, pool_vars, conc_vars, disk_vars, fm_vars, mgr_vars, bc, rq>>
rq_frame == <<pol_vars, stats_vars, pool_vars, conc_vars, disk_vars, fm_vars, mgr_vars, bc, dcfg>>
mgr_frame == <<run_vars, pol_vars, stats_vars, pool, circuit, last, retired, in_a_row, tr, conc_vars, disk_vars, fm_vars, aux_vars>>
vars == <<run_vars, lib_vars>>

\* an invocation's locals: the run it was handed, where it is, and the locals of
\* execute_run (engine_mode, current_engine, session_data is not None,
\* escalation_count, the adapter's last result in items, escalation.attempts,
\* the exception in flight).  execs, got_items and pausable only observe: the
\* adapter executions so far, whether one of them returned items, whether the
\* probe met a 401/403 with a session, whether the site answered a request of
\* the http engine with 403, and the probe_result of the intervention spec the
\* probe built ("none" when it built none).
Idle == [run |-> 0, pc |-> "idle", engine_mode |-> "auto", current_engine |-> "http",
         has_session |-> FALSE, escalation_count |-> 0, items |-> "unset",
         attempts |-> <<>>, exc |-> "none",
         execs |-> 0, got_items |-> FALSE, pausable |-> FALSE, http_403 |-> FALSE, probe_result |-> "none"]

NoJob == [requires_auth |-> FALSE, engine_mode |-> "auto", config |-> NoConfig]

\* no Run row, an empty broker, idle workers
RunInit ==
    /\ jobs = [r \in Runs |-> NoJob]
    /\ status = [r \in Runs |-> "absent"]
    /\ failure_code = [r \in Runs |-> "none"]
    /\ error_message = [r \in Runs |-> "none"]
    /\ events = [r \in Runs |-> <<>>]
    /\ records = [r \in Runs |-> <<>>]
    /\ interventions = <<>>
    /\ vault = [r \in Runs |-> NoSession]
    /\ queue = [r \in Runs |-> 0]
    /\ redelivered = [r \in Runs |-> 0]
    /\ wk = [w \in Workers |-> Idle]

\* auto_escalation.py: EscalationDecision, to_engine and reason (None = NoDecision)
NoDecision == [to_engine |-> "none", reason |-> "none"]

\* no policy evaluation under way
NoPolicyCall ==
    [phase |-> "idle", engine_mode |-> "auto", current_engine |-> "http",
     html |-> [js_marker |-> FALSE, block_marker |-> FALSE, robots_noindex |-> FALSE],
     status_code |-> 200, extracted_count |-> 0, required_selectors |-> 0,
     decision |-> NoDecision, escalated |-> FALSE, next_engine |-> "http"]

PolicyIdle == pol = NoPolicyCall

\* the engines adaptive_engine.py keeps statistics of and reads them for
StatEngines == {"http", "playwright"}

\* no row for the key.  success_rate is the pair <<n, d>> of the quotient n / d
\* (0.0 is <<0, 1>>).
NoStats ==
    [present |-> FALSE, total_attempts |-> 0, successful_attempts |-> 0,
     failed_attempts |-> 0, success_rate |-> <<0, 1>>]

NoStatsCall == [pc |-> "idle", engine |-> "http", success |-> FALSE, row |-> NoStats]

\* an empty domain_stats table and no call under way
StatsIdle ==
    /\ stats = [e \in StatEngines |-> NoStats]
    /\ stats0 = stats
    /\ sw = [w \in Workers |-> NoStatsCall]
    /\ made = [k \in StatEngines \X BOOLEAN |-> 0]
    /\ raised = [e \in StatEngines |-> 0]

\* the proxy identities sessions of the site are keyed by
Proxies == {"default", "p1"}

\* no session under the key
NoBrowserSession ==
    [present |-> FALSE, first_seen_time |-> 0, last_success_time |-> 0,
     failure_streak |-> 0, total_uses |-> 0, captcha_count |-> 0]

\* SiteCircuitBreaker.last_failure_time before any failure
NoTime == 0 - 1

\* scraping/session_manager.py: SiteCircuitBreaker as _record_site_failure
\* creates it (present = the site has a breaker)
NoBreaker ==
    [present |-> FALSE, consecutive_failures |-> 0, last_failure_time |-> NoTime,
     is_open |-> FALSE]

NoPoolCall ==
    [op |-> "none", key |-> "default", result |-> "none", circuit_open |-> FALSE,
     session |-> NoBrowserSession, failures |-> 0]

NoTrustCall ==
    [age1 |-> 0, age2 |-> 0, failure_streak |-> 0, total_uses |-> 0,
     minutes_since_success |-> 0, scored |-> FALSE, trust1 |-> 0, trust2 |-> 0]

\* an empty pool of a site without a breaker
SessionsIdle ==
    /\ pool = [p \in Proxies |-> NoBrowserSession]
    /\ circuit = NoBreaker
    /\ now = 0
    /\ last = NoPoolCall
    /\ retired = [p \in Proxies |-> FALSE]
    /\ in_a_row = 0

PoolIdle == SessionsIdle /\ tr = NoTrustCall

Threads == 1..NumThreads

\* a thread that is in no call of the pool
NoThreadCall ==
    [pc |-> "idle", op |-> "none", key |-> "default", calls |-> 0,
     requests_read |-> 0, failures_read |-> 0]

ConcIdle ==
    /\ th = [t \in Threads |-> NoThreadCall]
    /\ total_requests = 0
    /\ finished = [mark_failure |-> 0, mark_success |-> 0]

\* a Python value and a JSON value, each with every field present: the kind,
\* the member name when it is a member of a dict or an object, the text, the
\* number and the items
Val(kind, s, n, items) == [k |-> kind, key |-> "", s |-> s, n |-> n, items |-> items]
PyNone == Val("None", "", 0, <<>>)

NoFiles == [f \in {} |-> PyNone]

DiskIdle ==
    /\ orig = PyNone
    /\ disk = NoFiles
    /\ loaded = NoFiles
    /\ dpc = "idle"

NewFieldMap(selector_spec) == [selector_spec |-> selector_spec, selector_version |-> "1", selector_history |-> <<>>]
FieldMapIdle == fm = NewFieldMap("none")

\* the sites and the keys of the manager's pool
Domains == {"a.com", "b.com"}
Keys == {<<"a.com", "default">>, <<"a.com", "p1">>, <<"b.com", "default">>}

NoManagerCall == [op |-> "none", domain |-> "a.com", proxy |-> "default", had_captcha |-> FALSE, result |-> "none", refused |-> FALSE]

\* SessionLifecycleManager.__init__ with an empty session directory
NewManager ==
    [sessions |-> [k \in Keys |-> NoBrowserSession],
     breakers |-> [d \in Domains |-> NoBreaker],
     files |-> [k \in Keys |-> NoBrowserSession],
     gone |-> [k \in Keys |-> FALSE],
     calls |-> 0,
     last |-> NoManagerCall]
ManagerIdle == mgr = NewManager

\* the messages are told apart by the words the classifier looks for
Mentions == {"captcha", "cloudflare", "challenge", "no items extracted", "timeout", "network"}
NoClassifierCall == [pc |-> "idle", response_code |-> 200, error_message |-> {}, has_session |-> FALSE, domain_access_class |-> "public", result |-> <<FALSE, "none", "none">>]
ClassifierIdle == bc = NoClassifierCall

\* no domain_configs row; block_rate_403 is a fraction <<numerator, denominator>>,
\* recorded_403 and raised only observe: the committed calls whose response code
\* was 403, and the calls that ended in an exception
NoDomainConfig == [present |-> FALSE, access_class |-> "public", requires_session |-> "no", total_attempts |-> 0, successful_attempts |-> 0, block_rate_403 |-> <<0, 1>>, recorded_403 |-> 0, raised |-> 0]
DomainConfigIdle == dcfg = NoDomainConfig

Requests == 1..NumRequests
NoRequest == [pc |-> "idle", task |-> 1, answer |-> "none"]
RequestsIdle == rq = [q \in Requests |-> NoRequest]

AuxIdle == ClassifierIdle /\ DomainConfigIdle /\ RequestsIdle

ExtIdle == ConcIdle /\ DiskIdle /\ FieldMapIdle /\ ManagerIdle /\ AuxIdle

Init == RunInit /\ PolicyIdle /\ StatsIdle /\ PoolIdle /\ ExtIdle


\* ------------------------------------------------------------ pure helpers

Min(a, b) == IF a < b THEN a ELSE b

\* classify_exception with the exception's class name passed on as the code
\* and no message
classify_exception_by_name(exc) == [code |-> exc, message |-> "none"]

\* classifier.py: classify_exception
classify_exception(exc) ==
    IF exc = "TimeoutException" THEN [code |-> "timeout", message |-> "Request timed out"]
    ELSE IF exc = "NetworkError" THEN [code |-> "network", message |-> "Network error"]
    ELSE [code |-> "unknown", message |-> "Unhandled error: " \o exc]

\* services/session_manager.py: SessionManager.get_valid_session (TRUE = a row is returned)
get_valid_session(v) == v.present /\ v.is_valid /\ v.health_status = "valid"

\* session_probe.py: the SessionHealthStatus probe_session_health returns
probe_status(resp) ==
    IF resp = "200" THEN "valid"
    ELSE IF resp \in {"401", "403"} THEN "invalid"
    ELSE "unknown"

\* session_probe.py: the SessionVault row probe_session_health commits
probe_session_health(v, resp) ==
    IF resp = "error"
    THEN [v EXCEPT !.health_status = "unknown"]
    ELSE [v EXCEPT !.health_status = probe_status(resp),
                   !.is_valid = (probe_status(resp) = "valid")]

\* the two specs session_probe.py hands to create_intervention
ProbeSpecNoSession ==
    [type |-> "manual_access", reason |-> "Session required but not available",
     priority |-> "high", payload |-> "no_session"]
ProbeSpecInvalid ==
    [type |-> "login_refresh", reason |-> "Session invalid (proactive probe)",
     priority |-> "normal", payload |-> "invalid"]

\* intervention_engine.py: InterventionEngine.create_intervention.  The task is
\* built from spec["type"], spec["trigger_reason"], spec.get("priority") and
\* spec["payload"]; a missing key raises KeyError before any row is added.
create_intervention(tbl, run_id, spec) ==
    IF {"type", "trigger_reason", "payload"} \subseteq DOMAIN spec
    THEN [raised |-> "none",
          table |-> Append(tbl, [run_id |-> run_id, type |-> spec.type, status |-> "pending",
                                 priority |-> IF "priority" \in DOMAIN spec
                                              THEN spec.priority ELSE "normal"])]
    ELSE [raised |-> "KeyError", table |-> tbl]

\* provider_router.py: ProviderRouter.should_skip_direct_attempts
should_skip_direct_attempts(config, has_session) ==
    IF ~config.present THEN FALSE
    ELSE IF config.access_class = "infra" THEN TRUE
    ELSE config.access_class = "human" /\ ~has_session
         /\ config.block_rate_403 >= BLOCK_RATE_THRESHOLD_PCT

\* provider_router.py: ProviderRouter.get_initial_strategy, <<strategy, reason>>
get_initial_strategy(config, has_session) ==
    IF ~config.present THEN <<"auto", "unknown_domain_default_auto">>
    ELSE IF config.access_class = "public" THEN <<"auto", "public_domain">>
    ELSE IF config.access_class = "infra" THEN <<"api_replay", "infra_domain_provider">>
    ELSE IF config.access_class = "human"
         THEN IF has_session THEN <<"auto", "human_domain_with_session">>
              ELSE IF config.block_rate_403 >= BLOCK_RATE_THRESHOLD_PCT
                   THEN <<"api_replay", "human_domain_high_block_rate_provider">>
                   ELSE <<"auto", "human_domain_low_block_rate">>
    ELSE <<"auto", "default">>

\* adaptive_engine.py: MIN_ATTEMPTS_FOR_BIAS, LOW_SUCCESS_THRESHOLD and
\* HIGH_SUCCESS_THRESHOLD (in percent)
MIN_ATTEMPTS_FOR_BIAS == 5
LOW_SUCCESS_THRESHOLD_PCT == 20
HIGH_SUCCESS_THRESHOLD_PCT == 85

\* the quotient rate[1] / rate[2] against a threshold given in percent
rate_below(rate, pct) == rate[1] * 100 < pct * rate[2]
rate_above(rate, pct) == rate[1] * 100 > pct * rate[2]
rate_equal(p, q) == p[1] * q[2] = q[1] * p[2]

\* get_biased_initial_engine with the low threshold included in "low"
get_biased_initial_engine_low_inclusive(tbl, engine_mode) ==
    IF engine_mode # "auto" THEN <<engine_mode, "none">>
    ELSE IF /\ tbl["http"].present
            /\ tbl["http"].total_attempts >= MIN_ATTEMPTS_FOR_BIAS
            /\ ~rate_above(tbl["http"].success_rate, LOW_SUCCESS_THRESHOLD_PCT)
    THEN <<"playwright", "domain_bias:http_low_success">>
    ELSE <<"http", "none">>

\* get_biased_initial_engine with the playwright statistics read first
get_biased_initial_engine_playwright_first(tbl, engine_mode) ==
    IF engine_mode # "auto" THEN <<engine_mode, "none">>
    ELSE IF /\ tbl["playwright"].present
            /\ tbl["playwright"].total_attempts >= MIN_ATTEMPTS_FOR_BIAS
            /\ rate_above(tbl["playwright"].success_rate, HIGH_SUCCESS_THRESHOLD_PCT)
    THEN <<"playwright", "domain_bias:playwright_proven">>
    ELSE IF /\ tbl["http"].present
            /\ tbl["http"].total_attempts >= MIN_ATTEMPTS_FOR_BIAS
            /\ rate_below(tbl["http"].success_rate, LOW_SUCCESS_THRESHOLD_PCT)
    THEN <<"playwright", "domain_bias:http_low_success">>
    ELSE IF /\ tbl["http"].present
            /\ tbl["http"].total_attempts >= MIN_ATTEMPTS_FOR_BIAS
            /\ rate_above(tbl["http"].success_rate, HIGH_SUCCESS_THRESHOLD_PCT)
    THEN <<"http", "domain_bias:http_high_success">>
    ELSE <<"http", "none">>

\* adaptive_engine.py: get_biased_initial_engine, <<engine, reason>>, on the
\* DomainStats rows tbl of the URL's domain
get_biased_initial_engine(tbl, engine_mode) ==
    IF engine_mode # "auto" THEN <<engine_mode, "none">>
    ELSE IF /\ tbl["http"].present
            /\ tbl["http"].total_attempts >= MIN_ATTEMPTS_FOR_BIAS
            /\ rate_below(tbl["http"].success_rate, LOW_SUCCESS_THRESHOLD_PCT)
    THEN <<"playwright", "domain_bias:http_low_success">>
    ELSE IF /\ tbl["http"].present
            /\ tbl["http"].total_attempts >= MIN_ATTEMPTS_FOR_BIAS
            /\ rate_above(tbl["http"].success_rate, HIGH_SUCCESS_THRESHOLD_PCT)
    THEN <<"http", "domain_bias:http_high_success">>
    ELSE IF /\ tbl["playwright"].present
            /\ tbl["playwright"].total_attempts >= MIN_ATTEMPTS_FOR_BIAS
            /\ rate_above(tbl["playwright"].success_rate, HIGH_SUCCESS_THRESHOLD_PCT)
    THEN <<"playwright", "domain_bias:playwright_proven">>
    ELSE <<"http", "none">>

\* can_escalate without the test of engine_mode
can_escalate_any_mode(engine_mode, current_engine) ==
    \E i \in 1..(Len(TIER_ORDER) - 1) : TIER_ORDER[i] = current_engine

\* auto_escalation.py: AutoEscalationEngine.can_escalate
can_escalate(engine_mode, current_engine) ==
    IF engine_mode # "auto" THEN FALSE
    ELSE \E i \in 1..(Len(TIER_ORDER) - 1) : TIER_ORDER[i] = current_engine

\* auto_escalation.py: EscalationSignal.BLOCK_STATUS_CODES
BLOCK_STATUS_CODES == {401, 403, 429}

\* auto_escalation.py: EscalationSignal.detect_extraction_failure
detect_extraction_failure(extracted_count, required_selectors) ==
    IF required_selectors = 0 THEN FALSE ELSE extracted_count = 0

\* should_escalate_from_http with the provider as the engine to go to
should_escalate_from_http_to_provider(html, status_code, extracted_count, required_selectors) ==
    IF status_code \in BLOCK_STATUS_CODES
    THEN [to_engine |-> "provider", reason |-> "blocked_status_code"]
    ELSE IF html.js_marker
    THEN [to_engine |-> "provider", reason |-> "js_app_detected"]
    ELSE IF detect_extraction_failure(extracted_count, required_selectors)
    THEN [to_engine |-> "provider", reason |-> "extraction_confidence_fail"]
    ELSE IF html.robots_noindex
    THEN [to_engine |-> "provider", reason |-> "robots_noindex"]
    ELSE NoDecision

\* should_escalate_from_http with the extraction test ahead of the JS markers
should_escalate_from_http_extraction_first(html, status_code, extracted_count, required_selectors) ==
    IF status_code \in BLOCK_STATUS_CODES
    THEN [to_engine |-> "playwright", reason |-> "blocked_status_code"]
    ELSE IF detect_extraction_failure(extracted_count, required_selectors)
    THEN [to_engine |-> "playwright", reason |-> "extraction_confidence_fail"]
    ELSE IF html.js_marker
    THEN [to_engine |-> "playwright", reason |-> "js_app_detected"]
    ELSE IF html.robots_noindex
    THEN [to_engine |-> "playwright", reason |-> "robots_noindex"]
    ELSE NoDecision

\* auto_escalation.py: AutoEscalationEngine.should_escalate_from_http.  The
\* HTML is known by what the searches find in it: a JS_MARKERS pattern
\* (detect_js_app), a BLOCK_MARKERS pattern, the robots noindex meta tag.
should_escalate_from_http(html, status_code, extracted_count, required_selectors) ==
    IF status_code \in BLOCK_STATUS_CODES
    THEN [to_engine |-> "playwright", reason |-> "blocked_status_code"]
    ELSE IF html.js_marker
    THEN [to_engine |-> "playwright", reason |-> "js_app_detected"]
    ELSE IF detect_extraction_failure(extracted_count, required_selectors)
    THEN [to_engine |-> "playwright", reason |-> "extraction_confidence_fail"]
    ELSE IF html.robots_noindex
    THEN [to_engine |-> "playwright", reason |-> "robots_noindex"]
    ELSE NoDecision

\* auto_escalation.py: AutoEscalationEngine.should_escalate_from_playwright
\* (detect_block: the status code or a BLOCK_MARKERS pattern)
should_escalate_from_playwright(html, status_code, navigation_failed, captcha_detected) ==
    IF status_code \in BLOCK_STATUS_CODES \/ html.block_marker
    THEN [to_engine |-> "provider", reason |-> "blocked_detected"]
    ELSE IF navigation_failed
    THEN [to_engine |-> "provider", reason |-> "navigation_failed"]
    ELSE IF captcha_detected
    THEN [to_engine |-> "provider", reason |-> "captcha_detected"]
    ELSE NoDecision

\* auto_escalation.py: AutoEscalationEngine.log_attempt
log_attempt(attempts, engine, signals, decision, success) ==
    Append(attempts, [engine |-> engine, signals |-> signals, decision |-> decision,
                      success |-> success])

\* tasks.py: _execute_with_engine, the outcomes each adapter can hand back
\* when the site answers resp.  _scrapy_extract and
\* _extract_with_playwright_stable catch every exception and return a list,
\* and the spider is handed 2xx responses only; only the provider branch
\* re-raises: a timeout, a network error, a missing key (ValueError), and
\* raise_for_status() of scraperapi_extract.py for a 4xx other than 401/403.
\* Each branch that returns hands back the status code 200.
execute_with_engine(engine, resp) ==
    IF engine = "http" THEN (IF resp = 200 THEN {"items", "empty"} ELSE {"empty"})
    ELSE IF engine = "playwright" THEN {"items", "empty"}
    ELSE IF engine = "provider"
    THEN IF resp = 200 THEN AdapterOutcomes \ {"HTTPStatusError"}
         ELSE IF resp \in {401, 403} THEN {"empty", "TimeoutException", "NetworkError", "ValueError"}
         ELSE {"HTTPStatusError", "TimeoutException", "NetworkError", "ValueError"}
    ELSE {"ValueError"}

\* orchestrator.py: _add_event
add_event(ev, r, message) == [ev EXCEPT ![r] = Append(@, message)]

\* orchestrator.py: the status-changing functions, each with its RunEvent
start_run(r) ==
    /\ status' = [status EXCEPT ![r] = "running"]
    /\ events' = add_event(events, r, "Run started")

fail_run(r, code, message) ==
    /\ status' = [status EXCEPT ![r] = "failed"]
    /\ failure_code' = [failure_code EXCEPT ![r] = code]
    /\ error_message' = [error_message EXCEPT ![r] = message]
    /\ events' = add_event(events, r, "Run failed")

pause_run_for_intervention(r) ==
    /\ status' = [status EXCEPT ![r] = "waiting_for_human"]
    /\ events' = add_event(events, r, "Run paused for intervention")

\* -------------------------------------------------------------- operations

\* api/jobs.py: create_job + create_job_run for a new Job: the Run row in
\* queued, its "Run created" event, and one runs.execute message.  The Job
\* row always has engine_mode "auto": create_job does not pass the field and
\* update_job does not allow it.
create_job_run(r) ==
    /\ status[r] = "absent"
    /\ \E auth \in BOOLEAN, cfg \in DomainConfigs, v \in {NoSession, ValidSession} :
          /\ jobs' = [jobs EXCEPT ![r] = [requires_auth |-> auth, engine_mode |-> "auto",
                                          config |-> cfg]]
          /\ vault' = [vault EXCEPT ![r] = v]
    /\ status' = [status EXCEPT ![r] = "queued"]
    /\ events' = add_event(events, r, "Run created")
    /\ queue' = [queue EXCEPT ![r] = @ + 1]
    /\ UNCHANGED <<failure_code, error_message, records, interventions, redelivered, wk, lib_vars>>

\* the broker hands a runs.execute message to an idle worker
Deliver(w, r) ==
    /\ wk[w].pc = "idle"
    /\ queue[r] > 0
    /\ queue' = [queue EXCEPT ![r] = @ - 1]
    /\ wk' = [wk EXCEPT ![w] = [Idle EXCEPT !.run = r, !.pc = "start"]]
    /\ UNCHANGED <<jobs, status, failure_code, error_message, events, records, interventions, vault, redelivered, lib_vars>>

\* celery_app.py: task_acks_late with a visibility timeout: a message whose
\* task has not returned yet is made deliverable again
Redeliver(w) ==
    /\ wk[w].pc \notin {"idle", "done"}
    /\ redelivered[wk[w].run] < MaxRedeliver
    /\ redelivered' = [redelivered EXCEPT ![wk[w].run] = @ + 1]
    /\ queue' = [queue EXCEPT ![wk[w].run] = @ + 1]
    /\ UNCHANGED <<jobs, status, failure_code, error_message, events, records, interventions, vault, wk, lib_vars>>

\* execute_run, tasks.py:257-295: load Run and Job, start_run, commit.  Run and
\* Job rows are never deleted, so both are found.
Start(w) ==
    /\ wk[w].pc = "start"
    /\ start_run(wk[w].run)
    /\ wk' = [wk EXCEPT ![w].pc = IF jobs[wk[w].run].requires_auth THEN "probe" ELSE "route"]
    /\ UNCHANGED <<jobs, failure_code, error_message, records, interventions, vault, queue, redelivered, lib_vars>>

\* the steps that leave Probe: healthy, an exception, or the pause
ProbeHealthy(w, v) ==
    /\ vault' = [vault EXCEPT ![wk[w].run] = v]
    /\ wk' = [wk EXCEPT ![w].pc = "route", ![w].has_session = get_valid_session(v)]
    /\ UNCHANGED <<status, events, interventions>>

ProbeIntervene(w, v, spec, hit) ==
    LET r == wk[w].run
        res == create_intervention(interventions, r, spec) IN
    /\ vault' = [vault EXCEPT ![r] = v]
    /\ IF res.raised # "none"
       THEN /\ wk' = [wk EXCEPT ![w].pc = "handler", ![w].exc = res.raised,
                                ![w].pausable = hit,
                                ![w].probe_result = spec.payload]
            /\ UNCHANGED <<status, events, interventions>>
       ELSE /\ interventions' = res.table
            /\ pause_run_for_intervention(r)
            /\ wk' = [wk EXCEPT ![w].pc = "done", ![w].pausable = hit,
                                ![w].probe_result = spec.payload]

\* execute_run, tasks.py:297-327 with session_probe.py: probe_before_run
Probe(w) ==
    LET r == wk[w].run
        config == jobs[r].config IN
    /\ wk[w].pc = "probe"
    /\ IF ~config.present \/ config.requires_session = "no"
       THEN ProbeHealthy(w, vault[r])
       ELSE IF ~get_valid_session(vault[r])
            THEN IF config.requires_session = "required"
                 THEN ProbeIntervene(w, vault[r], ProbeSpecNoSession, FALSE)
                 ELSE ProbeHealthy(w, vault[r])
            ELSE \E resp \in ProbeResponses :
                    IF resp # "error" /\ probe_status(resp) = "invalid"
                    THEN ProbeIntervene(w, probe_session_health(vault[r], resp),
                                        ProbeSpecInvalid, TRUE)
                    ELSE ProbeHealthy(w, probe_session_health(vault[r], resp))
    /\ UNCHANGED <<jobs, failure_code, error_message, records, queue, redelivered, lib_vars>>

\* execute_run, tasks.py:329-402: provider routing, initial engine, bias log
Route(w) ==
    LET r == wk[w].run
        config == jobs[r].config
        skip == should_skip_direct_attempts(config, wk[w].has_session)
        strat == IF skip THEN <<"api_replay", "routing_to_provider">>
                 ELSE get_initial_strategy(config, wk[w].has_session)
        mode == IF skip THEN "provider" ELSE jobs[r].engine_mode
        engine == IF strat[1] = "api_replay" THEN "provider"
                  ELSE get_biased_initial_engine(stats, mode)[1] IN
    /\ wk[w].pc = "route"
    /\ wk' = [wk EXCEPT ![w].pc = "loop",
                         ![w].engine_mode = mode,
                         ![w].current_engine = engine,
                         ![w].attempts = log_attempt(@, "adaptive_intelligence", strat[2],
                                                     "initial_engine_biased", FALSE)]
    /\ UNCHANGED <<jobs, status, failure_code, error_message, events, records, interventions, vault, queue, redelivered, lib_vars>>

\* execute_run, tasks.py:404-421: one pass of the escalation loop.  The try
\* body is the adapter call alone; after a normal return control is back at
\* the while test, after an exception the first handler re-raises.
RunEngine(w) ==
    /\ wk[w].pc = "loop"
    /\ wk[w].escalation_count < max_escalations
    /\ \E resp \in SiteResponses : \E o \in execute_with_engine(wk[w].current_engine, resp) :
          wk' = [wk EXCEPT ![w].execs = Min(@ + 1, MaxExec),
                           ![w].http_403 = @ \/ (wk[w].current_engine = "http" /\ resp = 403),
                           ![w].items = IF o \in AdapterExceptions THEN @ ELSE o,
                           ![w].got_items = @ \/ (o = "items"),
                           ![w].exc = IF o \in AdapterExceptions THEN o ELSE @,
                           ![w].pc = IF o \in AdapterExceptions THEN "handler" ELSE "loop"]
    /\ UNCHANGED <<jobs, status, failure_code, error_message, events, records, interventions, vault, queue, redelivered, lib_vars>>

\* execute_run, tasks.py:750-779: the top-level handler fails the Run with the
\* classified exception
TopLevelHandler(w) ==
    /\ wk[w].pc = "handler"
    /\ LET failure == classify_exception(wk[w].exc) IN
          fail_run(wk[w].run, failure.code, failure.message)
    /\ wk' = [wk EXCEPT ![w].pc = "done"]
    /\ UNCHANGED <<jobs, records, interventions, vault, queue, redelivered, lib_vars>>

\* the task has returned: the worker acknowledges and takes the next message
Ack(w) ==
    /\ wk[w].pc = "done"
    /\ wk' = [wk EXCEPT ![w] = Idle]
    /\ UNCHANGED <<jobs, status, failure_code, error_message, events, records, interventions, vault, queue, redelivered, lib_vars>>

Step(w) ==
    \/ Start(w)
    \/ Probe(w)
    \/ Route(w)
    \/ RunEngine(w)
    \/ TopLevelHandler(w)
    \/ Ack(w)

Next ==
    \/ \E r \in Runs : create_job_run(r)
    \/ \E w \in Workers, r \in Runs : Deliver(w, r)
    \/ \E w \in Workers : Redeliver(w)
    \/ \E w \in Workers : Step(w)

Spec == Init /\ [][Next]_vars

\* a worker that can take a step of its task eventually takes it, and a
\* deliverable message is eventually handed to a free worker
FairSpec ==
    /\ Spec
    /\ \A w \in Workers : WF_vars(Step(w))
    /\ \A w \in Workers : WF_vars(\E r \in Runs : Deliver(w, r))

\* ------------------------------------------------------ escalation policy

\* the inputs one evaluation of the policy is given
StatusCodes == {200, 401, 403, 429, 500}
Htmls == [js_marker : BOOLEAN, block_marker : BOOLEAN, robots_noindex : BOOLEAN]
EngineModes == {"auto", "http", "playwright", "provider"}
MaxSelectors == 1

\* an evaluation about to happen: in a forced mode the current engine is the
\* forced one (get_biased_initial_engine returns engine_mode itself)
PolicyInputs ==
    {p \in [phase : {"input"}, engine_mode : EngineModes,
             current_engine : {TIER_ORDER[i] : i \in DOMAIN TIER_ORDER},
             html : Htmls, status_code : StatusCodes,
             extracted_count : 0..1, required_selectors : 0..MaxSelectors,
             decision : {NoDecision}, escalated : {FALSE}, next_engine : {"http"}] :
        p.engine_mode # "auto" => p.current_engine = p.engine_mode}

PolicyInit == RunInit /\ pol \in PolicyInputs /\ StatsIdle /\ PoolIdle /\ ExtIdle

\* execute_run, tasks.py:560-585: the decision on an adapter result without
\* items, and the engine the loop goes on with
Decide ==
    LET decision ==
            IF pol.current_engine = "http"
            THEN should_escalate_from_http(pol.html, pol.status_code,
                                           pol.extracted_count, pol.required_selectors)
            ELSE IF pol.current_engine = "playwright"
            THEN should_escalate_from_playwright(pol.html, pol.status_code, FALSE, FALSE)
            ELSE NoDecision
        escalate == decision # NoDecision /\ can_escalate(pol.engine_mode, pol.current_engine) IN
    /\ pol.phase = "input"
    /\ pol' = [pol EXCEPT !.phase = "decided",
                          !.decision = decision,
                          !.escalated = escalate,
                          !.next_engine = IF escalate THEN decision.to_engine
                                          ELSE pol.current_engine]
    /\ UNCHANGED pol_frame

\* execute_run, tasks.py:575-585 and the while test: after an escalation the
\* loop goes on with the engine decided on, and the next adapter result is
\* put to the policy
Continue ==
    /\ pol.phase = "decided"
    /\ pol.escalated
    /\ \E p \in PolicyInputs :
          /\ p.engine_mode = pol.engine_mode
          /\ p.current_engine = pol.next_engine
          /\ pol' = p
    /\ UNCHANGED pol_frame

PolicyNext == Decide \/ Continue

PolicySpec == PolicyInit /\ [][PolicyNext]_vars

\* ------------------------------------------------------------ domain stats

\* rows in the table at the start have up to MaxSeed attempts; up to MaxCalls
\* calls of record_run_outcome are made
MaxSeed == 5
MaxCalls == 3

\* a row whose counters agree with each other
StatsRow(total, successful) ==
    [present |-> TRUE, total_attempts |-> total, successful_attempts |-> successful,
     failed_attempts |-> total - successful,
     success_rate |-> IF total = 0 THEN <<0, 1>> ELSE <<successful, total>>]

SeedRows ==
    {StatsRow(q[1], q[2]) : q \in {p \in (0..MaxSeed) \X (0..MaxSeed) : p[2] <= p[1]}}

\* the table holds, for each engine, no row or a row recorded earlier
StatsInit ==
    /\ RunInit
    /\ PolicyIdle
    /\ PoolIdle
    /\ ExtIdle
    /\ stats \in [StatEngines -> SeedRows \cup {NoStats}]
    /\ stats0 = stats
    /\ sw = [w \in Workers |-> NoStatsCall]
    /\ made = [k \in StatEngines \X BOOLEAN |-> 0]
    /\ raised = [e \in StatEngines |-> 0]

\* record_run_outcome calls begun so far
CallsBegun ==
    made[<<"http", TRUE>>] + made[<<"http", FALSE>>]
    + made[<<"playwright", TRUE>>] + made[<<"playwright", FALSE>>]
    + raised["http"] + raised["playwright"]
    + Cardinality({w \in Workers : sw[w].pc # "idle"})

\* domain_stats.py: DomainStats.update_stats on the loaded object (counters and
\* success_rate; the escalation and cost averages are left out)
update_stats(row, success) ==
    LET total == row.total_attempts + 1
        successful == row.successful_attempts + (IF success THEN 1 ELSE 0) IN
    [row EXCEPT !.total_attempts = total,
                !.successful_attempts = successful,
                !.failed_attempts = @ + (IF success THEN 0 ELSE 1),
                !.success_rate = <<successful, total>>]

\* record_run_outcome, adaptive_engine.py:70-71: get_domain_stats finds the
\* row and the session holds it as the object to update
LoadRow(w, e, success) ==
    /\ sw[w].pc = "idle"
    /\ CallsBegun < MaxCalls
    /\ stats[e].present
    /\ sw' = [sw EXCEPT ![w] = [pc |-> "loaded", engine |-> e, success |-> success,
                                row |-> stats[e]]]
    /\ UNCHANGED <<stats, stats0, made, raised, stats_frame>>

\* record_run_outcome, adaptive_engine.py:70-85, for a key without a row:
\* DomainStats(domain=..., engine=...) sets no counter (the column defaults
\* are applied by the INSERT, and the session does not autoflush), so
\* update_stats stops at `self.total_attempts += 1` with None + 1, a
\* TypeError, before the commit: no row is written
NewRowRaises(w, e, success) ==
    /\ sw[w].pc = "idle"
    /\ CallsBegun < MaxCalls
    /\ ~stats[e].present
    /\ raised' = [raised EXCEPT ![e] = @ + 1]
    /\ UNCHANGED <<stats, stats0, sw, made, stats_frame>>

\* record_run_outcome, adaptive_engine.py:76-87: update_stats on the loaded
\* object and db.commit().  The UPDATE sets the columns whose value differs
\* from the loaded one, computed from the loaded one.
Commit(w) ==
    LET e == sw[w].engine
        old == sw[w].row
        new == update_stats(old, sw[w].success) IN
    /\ sw[w].pc = "loaded"
    /\ stats' = [stats EXCEPT
                   ![e].total_attempts = new.total_attempts,
                   ![e].successful_attempts =
                       IF sw[w].success THEN new.successful_attempts ELSE @,
                   ![e].failed_attempts =
                       IF sw[w].success THEN @ ELSE new.failed_attempts,
                   ![e].success_rate =
                       IF rate_equal(new.success_rate, old.success_rate) THEN @
                       ELSE new.success_rate]
    /\ made' = [made EXCEPT ![<<e, sw[w].success>>] = @ + 1]
    /\ sw' = [sw EXCEPT ![w] = NoStatsCall]
    /\ UNCHANGED <<stats0, raised, stats_frame>>

record_run_outcome(w) ==
    \/ \E e \in StatEngines, success \in BOOLEAN : LoadRow(w, e, success)
    \/ \E e \in StatEngines, success \in BOOLEAN : NewRowRaises(w, e, success)
    \/ Commit(w)

StatsNext == \E w \in Workers : record_run_outcome(w)

StatsSpec == StatsInit /\ [][StatsNext]_vars

\* ------------------------------------------------------------ session pool
\* scraping/session_manager.py, SessionLifecycleManager, for one site.  Times
\* are whole minutes; a trust score is held in half points (twice the score
\* of the code), so that the 0.5 per minute of the age penalty is a whole
\* number.  Each operation is one step: the worker processes are
\* single-threaded and every process has its own manager.

Max(a, b) == IF a > b THEN a ELSE b

\* _calculate_trust_breakdown with the hard age limit left out
calculate_trust_breakdown_no_age_limit(age_minutes, failure_streak, total_uses, minutes_since_success) ==
    LET age_penalty == IF age_minutes > 60 THEN age_minutes - 60 ELSE 0
        failure_penalty == 2 * (failure_streak * 15)
        success_bonus == IF minutes_since_success < 5 THEN 2 * 20 ELSE 0
        usage_penalty == 2 * ((IF total_uses > 50 THEN total_uses - 50 ELSE 0)
                              + (IF total_uses > MAX_USES THEN 50 ELSE 0))
        total_trust == 2 * 100 - age_penalty - failure_penalty + success_bonus
                       - usage_penalty
    IN  Max(0, Min(2 * 100, total_trust))

\* _calculate_trust_breakdown with the age penalty subtracted the wrong way
calculate_trust_breakdown_age_sign(age_minutes, failure_streak, total_uses, minutes_since_success) ==
    IF age_minutes > MAX_AGE_MINUTES THEN 0
    ELSE
    LET age_penalty == IF age_minutes > 60 THEN 60 - age_minutes ELSE 0
        failure_penalty == 2 * (failure_streak * 15)
        success_bonus == IF minutes_since_success < 5 THEN 2 * 20 ELSE 0
        usage_penalty == 2 * ((IF total_uses > 50 THEN total_uses - 50 ELSE 0)
                              + (IF total_uses > MAX_USES THEN 50 ELSE 0))
        total_trust == 2 * 100 - age_penalty - failure_penalty + success_bonus
                       - usage_penalty
    IN  Max(0, Min(2 * 100, total_trust))

\* _calculate_trust_breakdown: "total_trust", in half points
calculate_trust_breakdown(age_minutes, failure_streak, total_uses, minutes_since_success) ==
    IF age_minutes > MAX_AGE_MINUTES THEN 0
    ELSE
    LET age_penalty == IF age_minutes > 60 THEN age_minutes - 60 ELSE 0
        failure_penalty == 2 * (failure_streak * 15)
        success_bonus == IF minutes_since_success < 5 THEN 2 * 20 ELSE 0
        usage_penalty == 2 * ((IF total_uses > 50 THEN total_uses - 50 ELSE 0)
                              + (IF total_uses > MAX_USES THEN 50 ELSE 0))
        total_trust == 2 * 100 - age_penalty - failure_penalty + success_bonus
                       - usage_penalty
    IN  Max(0, Min(2 * 100, total_trust))

\* BrowserSession.age_minutes and minutes_since_success
age_minutes(s) == now - s.first_seen_time
minutes_since_success(s) == now - s.last_success_time

\* the trust of a pooled session at this moment
trust_of(s) ==
    calculate_trust_breakdown(age_minutes(s), s.failure_streak, s.total_uses,
                              minutes_since_success(s))

\* BrowserSession as create_session constructs it
NewBrowserSession ==
    [present |-> TRUE, first_seen_time |-> now, last_success_time |-> now,
     failure_streak |-> 0, total_uses |-> 0, captcha_count |-> 0]

\* SiteCircuitBreaker.should_open with > in the place of >=
should_open_above(b, threshold) == b.consecutive_failures > threshold

\* SiteCircuitBreaker.should_open
should_open(b, threshold) == b.consecutive_failures >= threshold

\* SiteCircuitBreaker.should_close
should_close(b, cooldown_minutes) ==
    IF b.last_failure_time = NoTime THEN TRUE
    ELSE now - b.last_failure_time > cooldown_minutes

\* SiteCircuitBreaker.record_failure
record_failure(b) ==
    [b EXCEPT !.consecutive_failures = @ + 1, !.last_failure_time = now]

\* SiteCircuitBreaker.record_success
record_success(b) ==
    [b EXCEPT !.consecutive_failures = 0, !.is_open = FALSE]

\* _is_circuit_open: its answer and the breaker it leaves
is_circuit_open(b) ==
    IF ~b.present THEN [open |-> FALSE, breaker |-> b]
    ELSE IF should_open(b, CIRCUIT_FAILURE_THRESHOLD)
    THEN [open |-> TRUE, breaker |-> [b EXCEPT !.is_open = TRUE]]
    ELSE IF b.is_open /\ should_close(b, CIRCUIT_COOLDOWN_MINUTES)
    THEN [open |-> FALSE,
          breaker |-> [b EXCEPT !.is_open = FALSE, !.consecutive_failures = 0]]
    ELSE [open |-> b.is_open, breaker |-> b]

\* _record_site_success
record_site_success(b) == IF b.present THEN record_success(b) ELSE b

\* _record_site_failure
record_site_failure(b) ==
    record_failure(IF b.present THEN b ELSE [NoBreaker EXCEPT !.present = TRUE])

\* mark_success with the failure streak left as it is
session_after_success_keep_streak(s, had_captcha) == [s EXCEPT !.last_success_time = now, !.total_uses = @ + 1, !.captcha_count = IF had_captcha THEN @ + 1 ELSE @]

\* mark_success: the pool entry it leaves for a pooled session
session_after_success(s, had_captcha) ==
    [s EXCEPT !.last_success_time = now,
              !.failure_streak = 0,
              !.total_uses = @ + 1,
              !.captcha_count = IF had_captcha THEN @ + 1 ELSE @]

\* mark_failure, the pool entry it leaves, retiring only above the maximum
session_after_failure_above(s) ==
    LET failed == [s EXCEPT !.failure_streak = @ + 1, !.total_uses = @ + 1]
    IN  IF failed.failure_streak > MAX_FAILURE_STREAK THEN NoBrowserSession
        ELSE failed

\* mark_failure: the pool entry it leaves for a pooled session
session_after_failure(s) ==
    LET failed == [s EXCEPT !.failure_streak = @ + 1, !.total_uses = @ + 1]
    IN  IF failed.failure_streak >= MAX_FAILURE_STREAK THEN NoBrowserSession
        ELSE failed

\* a session is marked at most MaxMarks times beyond the uses it started with
UsesSeeds == {0, SeedUses, HARD_CAP_USES - 1}
CanMark(s) ==
    s.present => \E seed \in UsesSeeds :
                    seed <= s.total_uses /\ s.total_uses < seed + MaxMarks

\* a call as `last' holds it: get and mark_failure with the session they
\* found under the key, mark_failure with the failure count it found
PoolCall(op, p, result, circuit_open) ==
    [op |-> op, key |-> p, result |-> result, circuit_open |-> circuit_open,
     session |-> IF op \in {"get", "mark_failure"} THEN pool[p]
                 ELSE NoBrowserSession,
     failures |-> IF op = "mark_failure" THEN circuit.consecutive_failures
                  ELSE 0]

\* _load_persisted_sessions: a session file is written by mark_success, so a
\* loaded session has no failure streak
LoadedSessions ==
    {[present |-> TRUE, first_seen_time |-> f, last_success_time |-> l,
      failure_streak |-> 0, total_uses |-> u, captcha_count |-> 0] :
        f \in {0, 0 - TickMinutes}, l \in {0, 0 - TickMinutes},
        u \in UsesSeeds \ {0}}

\* the manager after construction: every key has no session or a loaded one
PoolInit ==
    /\ RunInit
    /\ PolicyIdle
    /\ StatsIdle
    /\ ExtIdle
    /\ pool \in [Proxies -> {NoBrowserSession}
                            \cup {s \in LoadedSessions :
                                    s.first_seen_time <= s.last_success_time}]
    /\ circuit = NoBreaker
    /\ now = 0
    /\ last = NoPoolCall
    /\ retired = [p \in Proxies |-> FALSE]
    /\ in_a_row = 0
    /\ tr = NoTrustCall

get_session(p) ==
    LET c == is_circuit_open(circuit)
        session == pool[p]
        trust == trust_of(session)
    IN  /\ circuit' = c.breaker
        /\ IF c.open
           THEN /\ last' = PoolCall("get", p, "none", TRUE)
                /\ pool' = pool
           ELSE IF ~session.present
           THEN /\ last' = PoolCall("get", p, "none", FALSE)
                /\ pool' = pool
           ELSE IF session.total_uses >= HARD_CAP_USES
           THEN /\ last' = PoolCall("get", p, "none", FALSE)
                /\ pool' = [pool EXCEPT ![p] = NoBrowserSession]
           ELSE IF trust >= 2 * TRUST_DEGRADED
           THEN /\ last' = PoolCall("get", p, "session", FALSE)
                /\ pool' = pool
           ELSE /\ last' = PoolCall("get", p, "none", FALSE)
                /\ pool' = [pool EXCEPT ![p] = NoBrowserSession]
        /\ UNCHANGED <<now, retired, in_a_row, tr, pool_frame>>

create_session(p) ==
    /\ pool' = [pool EXCEPT ![p] = NewBrowserSession]
    /\ retired' = [retired EXCEPT ![p] = FALSE]
    /\ last' = PoolCall("create", p, "session", FALSE)
    /\ UNCHANGED <<circuit, now, in_a_row, tr, pool_frame>>

\* mark_success, as playwright_extract.py calls it: without had_captcha
mark_success(p) ==
    /\ CanMark(pool[p])
    /\ pool' = IF pool[p].present
               THEN [pool EXCEPT ![p] = session_after_success(@, FALSE)]
               ELSE pool
    /\ circuit' = record_site_success(circuit)
    /\ in_a_row' = 0
    /\ last' = PoolCall("mark_success", p, "none", FALSE)
    /\ UNCHANGED <<now, retired, tr, pool_frame>>

mark_failure(p) ==
    /\ CanMark(pool[p])
    /\ in_a_row < MaxFailures
    /\ circuit.consecutive_failures < MaxFailures
    /\ pool' = IF pool[p].present
               THEN [pool EXCEPT ![p] = session_after_failure(@)]
               ELSE pool
    /\ retired' = IF pool[p].present /\ ~pool'[p].present
                  THEN [retired EXCEPT ![p] = TRUE]
                  ELSE retired
    /\ circuit' = record_site_failure(circuit)
    /\ in_a_row' = in_a_row + 1
    /\ last' = PoolCall("mark_failure", p,
                        IF pool[p].present /\ ~pool'[p].present
                        THEN "retired" ELSE "none", FALSE)
    /\ UNCHANGED <<now, tr, pool_frame>>

cleanup_expired ==
    /\ pool' = [p \in Proxies |->
                  IF pool[p].present /\ trust_of(pool[p]) < 2 * TRUST_RETIRED
                  THEN NoBrowserSession ELSE pool[p]]
    /\ last' = PoolCall("cleanup", "default", "none", FALSE)
    /\ UNCHANGED <<circuit, now, retired, in_a_row, tr, pool_frame>>

\* time passes
Tick ==
    /\ now < MaxTicks * TickMinutes
    /\ now' = now + TickMinutes
    /\ last' = PoolCall("tick", "default", "none", FALSE)
    /\ UNCHANGED <<pool, circuit, retired, in_a_row, tr, pool_frame>>

PoolNext ==
    \/ \E p \in Proxies : get_session(p)
    \/ \E p \in Proxies : create_session(p)
    \/ \E p \in Proxies : mark_success(p)
    \/ \E p \in Proxies : mark_failure(p)
    \/ cleanup_expired
    \/ Tick

PoolSpec == PoolInit /\ [][PoolNext]_vars

\* ---------------------------------------------------------- trust scoring
\* the ages, streaks, uses and minutes since the last success a score is
\* computed for: on both sides of every threshold of the computation
Ages == {0, 59, 60, 61, 90, 119, 120, 121, 150}
Streaks == 0..MAX_FAILURE_STREAK
Uses == {0, 50, 51, 100, 101, 200, 201}
SinceSuccess == {0, 4, 5, 60}

\* a session that succeeded did so after it was first seen
TrustInputs ==
    {t \in [age1 : Ages, age2 : Ages, failure_streak : Streaks, total_uses : Uses,
             minutes_since_success : SinceSuccess, scored : {FALSE},
             trust1 : {0}, trust2 : {0}] :
        t.minutes_since_success <= t.age1}

TrustInit ==
    /\ RunInit
    /\ PolicyIdle
    /\ StatsIdle
    /\ ExtIdle
    /\ SessionsIdle
    /\ tr \in TrustInputs

\* the score of the session at the two ages
Score ==
    /\ ~tr.scored
    /\ tr' = [tr EXCEPT
                !.scored = TRUE,
                !.trust1 = calculate_trust_breakdown(tr.age1, tr.failure_streak,
                               tr.total_uses, tr.minutes_since_success),
                !.trust2 = calculate_trust_breakdown(tr.age2, tr.failure_streak,
                               tr.total_uses, tr.minutes_since_success)]
    /\ UNCHANGED <<pool, circuit, now, last, retired, in_a_row, pool_frame>>

TrustNext == Score

TrustSpec == TrustInit /\ [][TrustNext]_vars

\* ------------------------------------------- session pool, concurrent calls
\* The calls of the session pool as threads of one process interleave them.
\* What a call does inside `with self._lock` is one step (no other thread
\* is inside the lock meanwhile); what it does outside the lock is one
\* step per read and per write of shared state.  `x += 1` outside the lock
\* is a read and a later write, between which another thread may run.

ConcInit ==
    /\ RunInit
    /\ PolicyIdle
    /\ StatsIdle
    /\ pool \in [Proxies -> {NoBrowserSession}
                            \cup {s \in LoadedSessions :
                                    s.first_seen_time = 0 /\ s.total_uses = SeedUses}]
    /\ circuit = NoBreaker
    /\ now = 0
    /\ last = NoPoolCall
    /\ retired = [p \in Proxies |-> FALSE]
    /\ in_a_row = 0
    /\ tr = NoTrustCall
    /\ ConcIdle
    /\ DiskIdle
    /\ FieldMapIdle
    /\ ManagerIdle
    /\ AuxIdle

\* a thread enters get_session, mark_success or mark_failure
Call(t, op, p) ==
    /\ th[t].pc = "idle"
    /\ th[t].calls < MaxThreadCalls
    /\ th' = [th EXCEPT ![t] = [NoThreadCall EXCEPT
                !.pc = IF op = "get" THEN "circuit_check" ELSE "load_requests",
                !.op = op, !.key = p, !.calls = th[t].calls + 1]]
    /\ UNCHANGED <<pool, circuit, total_requests, finished, conc_frame>>

\* mark_success, mark_failure: self._total_requests += 1, the read
LoadRequests(t) ==
    /\ th[t].pc = "load_requests"
    /\ th' = [th EXCEPT ![t].requests_read = total_requests,
                        ![t].pc = "store_requests"]
    /\ UNCHANGED <<pool, circuit, total_requests, finished, conc_frame>>

\* self._total_requests += 1, the write
StoreRequests(t) ==
    /\ th[t].pc = "store_requests"
    /\ total_requests' = th[t].requests_read + 1
    /\ th' = [th EXCEPT ![t].pc = "locked"]
    /\ UNCHANGED <<pool, circuit, finished, conc_frame>>

\* mark_success: the block under the lock
LockedSuccess(t) ==
    /\ th[t].pc = "locked"
    /\ th[t].op = "mark_success"
    /\ pool' = IF pool[th[t].key].present
               THEN [pool EXCEPT ![th[t].key] =
                        [@ EXCEPT !.last_success_time = now, !.failure_streak = 0,
                                  !.total_uses = @ + 1]]
               ELSE pool
    /\ th' = [th EXCEPT ![t].pc = "site_success"]
    /\ UNCHANGED <<circuit, total_requests, finished, conc_frame>>

\* mark_success: _record_site_success, after the lock is released
SiteSuccess(t) ==
    /\ th[t].pc = "site_success"
    /\ circuit' = record_site_success(circuit)
    /\ finished' = [finished EXCEPT !.mark_success = @ + 1]
    /\ th' = [th EXCEPT ![t].pc = "idle"]
    /\ UNCHANGED <<pool, total_requests, conc_frame>>

\* mark_failure: the block under the lock
LockedFailure(t) ==
    /\ th[t].pc = "locked"
    /\ th[t].op = "mark_failure"
    /\ pool' = IF pool[th[t].key].present
               THEN [pool EXCEPT ![th[t].key] = session_after_failure(@)]
               ELSE pool
    /\ th' = [th EXCEPT ![t].pc = "breaker_check"]
    /\ UNCHANGED <<circuit, total_requests, finished, conc_frame>>

\* _record_site_failure, after the lock is released: the membership test
BreakerCheck(t) ==
    /\ th[t].pc = "breaker_check"
    /\ th' = [th EXCEPT ![t].pc = IF circuit.present THEN "load_failures"
                                  ELSE "breaker_create"]
    /\ UNCHANGED <<pool, circuit, total_requests, finished, conc_frame>>

\* _record_site_failure: a new SiteCircuitBreaker is stored for the site
BreakerCreate(t) ==
    /\ th[t].pc = "breaker_create"
    /\ circuit' = [NoBreaker EXCEPT !.present = TRUE]
    /\ th' = [th EXCEPT ![t].pc = "load_failures"]
    /\ UNCHANGED <<pool, total_requests, finished, conc_frame>>

\* record_failure: self.consecutive_failures += 1, the read
LoadFailures(t) ==
    /\ th[t].pc = "load_failures"
    /\ th' = [th EXCEPT ![t].failures_read = circuit.consecutive_failures,
                        ![t].pc = "store_failures"]
    /\ UNCHANGED <<pool, circuit, total_requests, finished, conc_frame>>

\* record_failure: the write, and last_failure_time
StoreFailures(t) ==
    /\ th[t].pc = "store_failures"
    /\ circuit' = [circuit EXCEPT
                     !.consecutive_failures = th[t].failures_read + 1,
                     !.last_failure_time = now]
    /\ finished' = [finished EXCEPT !.mark_failure = @ + 1]
    /\ th' = [th EXCEPT ![t].pc = "idle"]
    /\ UNCHANGED <<pool, total_requests, conc_frame>>

\* get_session: _is_circuit_open, before the lock is taken
CircuitCheck(t) ==
    /\ th[t].pc = "circuit_check"
    /\ circuit' = is_circuit_open(circuit).breaker
    /\ th' = [th EXCEPT ![t].pc = IF is_circuit_open(circuit).open THEN "idle"
                                  ELSE "locked"]
    /\ UNCHANGED <<pool, total_requests, finished, conc_frame>>

\* get_session: the block under the lock
LockedGet(t) ==
    /\ th[t].pc = "locked"
    /\ th[t].op = "get"
    /\ LET session == pool[th[t].key]
       IN  pool' = IF session.present
                      /\ (session.total_uses >= HARD_CAP_USES
                          \/ trust_of(session) < 2 * TRUST_DEGRADED)
                   THEN [pool EXCEPT ![th[t].key] = NoBrowserSession]
                   ELSE pool
    /\ th' = [th EXCEPT ![t].pc = "idle"]
    /\ UNCHANGED <<circuit, total_requests, finished, conc_frame>>

ConcNext ==
    \/ \E t \in Threads, op \in {"get", "mark_success", "mark_failure"},
          p \in Proxies : Call(t, op, p)
    \/ \E t \in Threads : LoadRequests(t)
    \/ \E t \in Threads : StoreRequests(t)
    \/ \E t \in Threads : LockedSuccess(t)
    \/ \E t \in Threads : SiteSuccess(t)
    \/ \E t \in Threads : LockedFailure(t)
    \/ \E t \in Threads : BreakerCheck(t)
    \/ \E t \in Threads : BreakerCreate(t)
    \/ \E t \in Threads : LoadFailures(t)
    \/ \E t \in Threads : StoreFailures(t)
    \/ \E t \in Threads : CircuitCheck(t)
    \/ \E t \in Threads : LockedGet(t)

ConcSpec == ConcInit /\ [][ConcNext]_vars

\* ------------------------------------------------------ session persistence
\* scraping/session_manager.py: _persist_session and _load_persisted_sessions.
\* A datetime is the minute it denotes, in UTC; its ISO text is a str that
\* carries the same minute.

PyStr(s) == Val("str", s, 0, <<>>)
PyInt(n) == Val("int", "", n, <<>>)
PyFloat(n) == Val("float", "", n, <<>>)
PyBool(b) == Val("bool", "", IF b THEN 1 ELSE 0, <<>>)
PyList(items) == Val("list", "", 0, items)
PyDict(items) == Val("dict", "", 0, items)
PyDatetime(minute) == Val("datetime", "utc", minute, <<>>)
Member(name, v) == [v EXCEPT !.key = name]

\* the fields of the BrowserSession dataclass, in declaration order
SessionFields ==
    <<"site_domain", "proxy_identity", "cookies", "storage_state",
      "first_seen_time", "last_success_time", "failure_streak", "total_uses",
      "captcha_count", "user_agent", "viewport">>

\* dataclasses.asdict: a dict of the fields
RECURSIVE FieldItems(_, _)
FieldItems(session, names) ==
    IF names = <<>> THEN <<>>
    ELSE <<Member(Head(names), session[Head(names)])>>
         \o FieldItems(session, Tail(names))
asdict(session) == PyDict(FieldItems(session, SessionFields))

\* d[name] = v, and d[name]
RECURSIVE SetMember(_, _, _)
SetMember(items, name, v) ==
    IF items = <<>> THEN <<>>
    ELSE <<IF Head(items).key = name THEN Member(name, v) ELSE Head(items)>>
         \o SetMember(Tail(items), name, v)
SetItem(d, name, v) == [d EXCEPT !.items = SetMember(d.items, name, v)]
GetItem(d, name) ==
    [d.items[CHOOSE i \in 1..Len(d.items) : d.items[i].key = name] EXCEPT !.key = ""]

\* datetime.isoformat and datetime.fromisoformat
isoformat(dt) == Val("str", "iso8601", dt.n, <<>>)
fromisoformat(text) == Val("datetime", "utc", text.n, <<>>)

\* fromisoformat left out: the field stays the str that was read
fromisoformat_skipped(text) == text

\* json.dump: the JSON value written for a Python value; a value json cannot
\* encode raises TypeError
RECURSIVE json_dump(_), dump_items(_)
dump_items(items) ==
    IF items = <<>> THEN <<>>
    ELSE <<json_dump(Head(items))>> \o dump_items(Tail(items))
json_dump(v) ==
    CASE v.k = "None" -> [v EXCEPT !.k = "null"]
      [] v.k = "str" -> [v EXCEPT !.k = "string"]
      [] v.k = "int" -> [v EXCEPT !.k = "number"]
      [] v.k = "float" -> [v EXCEPT !.k = "number", !.s = "."]
      [] v.k = "bool" -> [v EXCEPT !.k = IF v.n = 1 THEN "true" ELSE "false", !.n = 0]
      [] v.k \in {"list", "tuple"} ->
            [v EXCEPT !.k = "array", !.items = dump_items(v.items)]
      [] v.k = "dict" ->
            [v EXCEPT !.k = "object", !.items = dump_items(v.items)]
      [] OTHER -> [v EXCEPT !.k = "TypeError"]

RECURSIVE Encodable(_)
Encodable(v) ==
    /\ v.k \in {"None", "str", "int", "float", "bool", "list", "tuple", "dict"}
    /\ \A i \in 1..Len(v.items) : Encodable(v.items[i])

\* json.load: the Python value read for a JSON value
RECURSIVE json_load(_), load_items(_)
load_items(items) ==
    IF items = <<>> THEN <<>>
    ELSE <<json_load(Head(items))>> \o load_items(Tail(items))
json_load(j) ==
    CASE j.k = "null" -> [j EXCEPT !.k = "None"]
      [] j.k = "string" -> [j EXCEPT !.k = "str"]
      [] j.k = "number" -> [j EXCEPT !.k = IF j.s = "." THEN "float" ELSE "int", !.s = ""]
      [] j.k = "true" -> [j EXCEPT !.k = "bool", !.n = 1]
      [] j.k = "false" -> [j EXCEPT !.k = "bool", !.n = 0]
      [] j.k = "array" ->
            [j EXCEPT !.k = "list", !.items = load_items(j.items)]
      [] j.k = "object" ->
            [j EXCEPT !.k = "dict", !.items = load_items(j.items)]

\* BrowserSession.session_key
session_key(session) ==
    <<session["site_domain"].s,
      IF session["proxy_identity"].k = "None" \/ session["proxy_identity"].s = ""
      THEN "default" ELSE session["proxy_identity"].s>>

\* _persist_session: the file name and the document
filename(session) == <<session_key(session)[1], "_", session_key(session)[2], ".json">>
persisted_data(session) ==
    SetItem(SetItem(asdict(session),
                    "first_seen_time", isoformat(session["first_seen_time"])),
            "last_success_time", isoformat(session["last_success_time"]))

\* _load_persisted_sessions with last_success_time left as the text read
load_session_text_time(document) ==
    LET read == json_load(document)
        data == SetItem(SetItem(read,
                    "first_seen_time", fromisoformat(GetItem(read, "first_seen_time"))),
                    "last_success_time",
                    fromisoformat_skipped(GetItem(read, "last_success_time")))
    IN  [f \in {SessionFields[i] : i \in 1..Len(SessionFields)} |-> GetItem(data, f)]

\* _load_persisted_sessions: BrowserSession(**data) of a document read
load_session(document) ==
    LET read == json_load(document)
        data == SetItem(SetItem(read,
                    "first_seen_time", fromisoformat(GetItem(read, "first_seen_time"))),
                    "last_success_time", fromisoformat(GetItem(read, "last_success_time")))
    IN  [f \in {SessionFields[i] : i \in 1..Len(SessionFields)} |-> GetItem(data, f)]

\* the values Playwright and the browser profile hand to create_session
Cookie ==
    PyDict(<<Member("name", PyStr("sid")), Member("value", PyStr("abc")),
             Member("expires", PyFloat(0 - 1)), Member("httpOnly", PyBool(TRUE))>>)
CookieLists == {PyList(<<>>), PyList(<<Cookie>>)}
StorageStates ==
    {PyNone,
     PyDict(<<Member("cookies", PyList(<<Cookie>>)), Member("origins", PyList(<<>>))>>)}
Viewports ==
    {PyNone, PyDict(<<Member("width", PyInt(1920)), Member("height", PyInt(1080))>>)}

\* the sessions mark_success persists: used at least once, no failure streak
PersistedSessions ==
    {[site_domain |-> PyStr("a.com"), proxy_identity |-> p, cookies |-> c,
      storage_state |-> st, first_seen_time |-> PyDatetime(0 - f),
      last_success_time |-> PyDatetime(0), failure_streak |-> PyInt(0),
      total_uses |-> PyInt(u), captcha_count |-> PyInt(cc), user_agent |-> ua,
      viewport |-> v] :
        p \in {PyNone, PyStr("p1")}, c \in CookieLists, st \in StorageStates,
        f \in {0, 30}, u \in {1, SeedUses}, cc \in {0, 1},
        ua \in {PyNone, PyStr("Mozilla/5.0")}, v \in Viewports}

\* the hours after which the manager is started again
RestartHours == {0, MAX_PERSISTED_AGE_HOURS - 1, MAX_PERSISTED_AGE_HOURS + 1}

DiskInit ==
    /\ RunInit
    /\ PolicyIdle
    /\ StatsIdle
    /\ PoolIdle
    /\ ConcIdle
    /\ FieldMapIdle
    /\ ManagerIdle
    /\ AuxIdle
    /\ orig \in PersistedSessions
    /\ disk = NoFiles
    /\ loaded = NoFiles
    /\ dpc = "new"

\* mark_success persists the session
Persist ==
    /\ dpc = "new"
    /\ disk' = IF Encodable(persisted_data(orig))
               THEN filename(orig) :> json_dump(persisted_data(orig))
               ELSE disk
    /\ dpc' = "persisted"
    /\ UNCHANGED <<orig, loaded, now, disk_frame>>

\* the process is started again: SessionLifecycleManager() loads the files
Restart(hours) ==
    /\ dpc = "persisted"
    /\ now' = now + 60 * hours
    /\ LET fresh == {f \in DOMAIN disk :
                        now' - load_session(disk[f])["first_seen_time"].n
                            <= 60 * MAX_PERSISTED_AGE_HOURS}
       IN  /\ disk' = [f \in fresh |-> disk[f]]
           /\ loaded' = [key \in {session_key(load_session(disk[f])) : f \in fresh} |->
                            load_session(disk[CHOOSE f \in fresh :
                                session_key(load_session(disk[f])) = key])]
    /\ dpc' = "restarted"
    /\ UNCHANGED <<orig, disk_frame>>

DiskNext ==
    \/ Persist
    \/ \E hours \in RestartHours : Restart(hours)

DiskSpec == DiskInit /\ [][DiskNext]_vars

\* ------------------------------------------------- intervention resolution
\* api/interventions.py: POST /interventions/{id}/resolve, called for the rows
\* of the intervention_tasks table.  The table is given: tasks in any status
\* of the lifecycle, for a Run or for none (run_id 0 = NULL).

InterventionStatus == {"pending", "in_progress", "completed", "expired", "cancelled"}

TaskRows ==
    [run_id : {0} \cup Runs, type : {"login_refresh", "field_confirm"},
     status : InterventionStatus, priority : {"normal"}]

TaskTables ==
    {<<a>> : a \in TaskRows}
    \cup {<<a, b>> : a \in TaskRows, b \in {x \in TaskRows : x.status = "pending"}}

HitlInit ==
    /\ jobs = [r \in Runs |-> NoJob]
    /\ status \in [Runs -> {"waiting_for_human", "failed", "completed"}]
    /\ failure_code = [r \in Runs |-> "none"]
    /\ error_message = [r \in Runs |-> "none"]
    /\ events = [r \in Runs |-> <<>>]
    /\ records = [r \in Runs |-> <<>>]
    /\ interventions \in TaskTables
    /\ vault = [r \in Runs |-> NoSession]
    /\ queue = [r \in Runs |-> 0]
    /\ redelivered = [r \in Runs |-> 0]
    /\ wk = [w \in Workers |-> Idle]
    /\ PolicyIdle
    /\ StatsIdle
    /\ PoolIdle
    /\ ExtIdle

\* orchestrator.py: resume_run
resume_run(r) ==
    /\ status' = [status EXCEPT ![r] = "queued"]
    /\ error_message' = [error_message EXCEPT ![r] = "none"]
    /\ events' = add_event(events, r, "Run resumed after intervention")

\* resolve_intervention for task i; captured = the request carries a captured
\* session and the task's payload names a domain.  A task already "resolved"
\* is answered 400 and nothing changes.
resolve_intervention(i, captured) ==
    /\ i \in DOMAIN interventions
    /\ interventions[i].status # "resolved"
    /\ interventions' = [interventions EXCEPT ![i].status = "resolved"]
    /\ LET r == interventions[i].run_id
       IN  /\ vault' = IF captured /\ r # 0 THEN [vault EXCEPT ![r] = ValidSession]
                       ELSE vault
           /\ IF r # 0 /\ status[r] = "waiting_for_human"
              THEN /\ resume_run(r)
                   /\ queue' = [queue EXCEPT ![r] = @ + 1]
              ELSE UNCHANGED <<status, error_message, events, queue>>
    /\ UNCHANGED <<jobs, failure_code, records, redelivered, wk, lib_vars>>

HitlNext == \E i \in 1..MaxTasks, captured \in BOOLEAN : resolve_intervention(i, captured)

HitlSpec == HitlInit /\ [][HitlNext]_vars

\* ------------------------------------------------- resolution, request by request
\* The same handler as the requests of several clients run it: each request has
\* its own database session, reads what is committed when it queries and makes
\* its changes visible at its commits (api/interventions.py:154 and 165).  A
\* request is at "idle", "loaded" (the task is read and not resolved),
\* "resolved" (the first commit is made), "resuming" (the Run is read as
\* waiting_for_human) or "done"; answer is what it returned.

\* api/interventions.py:120-128: the task is read; one already resolved is
\* answered 400
LoadTask(q, i) ==
    /\ rq[q].pc = "idle"
    /\ i \in DOMAIN interventions
    /\ rq' = [rq EXCEPT ![q] = IF interventions[i].status = "resolved"
                               THEN [pc |-> "done", task |-> i, answer |-> "400"]
                               ELSE [pc |-> "loaded", task |-> i, answer |-> "none"]]
    /\ UNCHANGED <<run_vars, rq_frame>>

\* api/interventions.py:130-154: the task is marked resolved, a captured
\* session is stored, commit
CommitResolved(q, captured) ==
    LET i == rq[q].task
        r == interventions[i].run_id IN
    /\ rq[q].pc = "loaded"
    /\ interventions' = [interventions EXCEPT ![i].status = "resolved"]
    /\ vault' = IF captured /\ r # 0 THEN [vault EXCEPT ![r] = ValidSession] ELSE vault
    /\ rq' = [rq EXCEPT ![q].pc = "resolved"]
    /\ UNCHANGED <<jobs, status, failure_code, error_message, events, records, queue, redelivered, wk, rq_frame>>

\* api/interventions.py:160-163, 179-183: the Run is read
QueryRun(q) ==
    LET r == interventions[rq[q].task].run_id IN
    /\ rq[q].pc = "resolved"
    /\ rq' = [rq EXCEPT ![q] = IF r # 0 /\ status[r] = "waiting_for_human"
                               THEN [@ EXCEPT !.pc = "resuming"]
                               ELSE [@ EXCEPT !.pc = "done", !.answer = "resolved"]]
    /\ UNCHANGED <<run_vars, rq_frame>>

\* api/interventions.py:164-177: resume_run on the Run as it was read, commit,
\* send_task
ResumeAndEnqueue(q) ==
    LET r == interventions[rq[q].task].run_id IN
    /\ rq[q].pc = "resuming"
    /\ resume_run(r)
    /\ queue' = [queue EXCEPT ![r] = @ + 1]
    /\ rq' = [rq EXCEPT ![q].pc = "done", ![q].answer = "resumed"]
    /\ UNCHANGED <<jobs, failure_code, records, interventions, vault, redelivered, wk, rq_frame>>

ResolveNext ==
    \E q \in Requests :
        \/ \E i \in 1..MaxTasks : LoadTask(q, i)
        \/ \E captured \in BOOLEAN : CommitResolved(q, captured)
        \/ QueryRun(q)
        \/ ResumeAndEnqueue(q)

ResolveSpec == HitlInit /\ [][ResolveNext]_vars

\* ------------------------------------------------------------------ selector versioning
\* update_selector and rollback_selector of app/services/selector_versioning.py,
\* applied to the FieldMap row they load.  The row is created with the column
\* defaults of app/models/field_map.py: selector_version "1", selector_history [].
\* selector_version is a String column: the functions parse it, add one and
\* format the sum.

Selectors == {"css_a", "css_b"}
Editors == {"system", "user"}

\* decimal text of the versions in range
VersionText == <<"1", "2", "3", "4", "5", "6", "7", "8", "9">>

\* str(n)
str(n) == VersionText[n]

\* int(s)
int(s) == CHOOSE n \in 1..Len(VersionText) : VersionText[n] = s

\* arguments that rollback_selector can be given as target_version
TargetVersions == {str(n) : n \in 1..MaxVersion}

\* a history entry; rollback_to is "none" where the dict has no such key
HistoryEntry(version, selector, updated_by, rollback_to) == [version |-> version, selector |-> selector, updated_by |-> updated_by, rollback_to |-> rollback_to]

update_selector_no_history(f, new_selector, updated_by) == [f EXCEPT !.selector_spec = new_selector, !.selector_version = str(int(f.selector_version) + 1)]

update_selector(f, new_selector, updated_by) ==
    LET current_version == int(f.selector_version)
        new_version == str(current_version + 1)
        history_entry == HistoryEntry(f.selector_version, f.selector_spec, updated_by, "none")
        history == Append(f.selector_history, history_entry)
    IN  [selector_spec |-> new_selector, selector_version |-> new_version, selector_history |-> history]

\* next((h for h in history if h["version"] == target_version), None):
\* the position of the first such entry, 0 for None
target_entry(history, target_version) ==
    LET hits == {i \in 1..Len(history) : history[i].version = target_version}
    IN  IF hits = {} THEN 0 ELSE CHOOSE i \in hits : \A j \in hits : i <= j

\* the row after rollback_selector; the row as it was where the function returns None
rollback_selector(f, target_version) ==
    LET history == f.selector_history
        t == target_entry(history, target_version)
        rollback_entry == HistoryEntry(f.selector_version, f.selector_spec, "system_rollback", target_version)
    IN  IF t = 0
        THEN f
        ELSE [selector_spec |-> history[t].selector, selector_version |-> str(int(f.selector_version) + 1), selector_history |-> Append(history, rollback_entry)]

FieldMapInit ==
    /\ RunInit
    /\ PolicyIdle
    /\ StatsIdle
    /\ PoolIdle
    /\ ConcIdle
    /\ DiskIdle
    /\ ManagerIdle
    /\ AuxIdle
    /\ fm \in {NewFieldMap(s) : s \in Selectors}

UpdateSelector(new_selector, updated_by) ==
    /\ int(fm.selector_version) < MaxVersion
    /\ fm' = update_selector(fm, new_selector, updated_by)
    /\ UNCHANGED fm_frame

RollbackSelector(target_version) ==
    /\ int(fm.selector_version) < MaxVersion
    /\ fm' = rollback_selector(fm, target_version)
    /\ UNCHANGED fm_frame

FieldMapNext ==
    \/ \E new_selector \in Selectors, updated_by \in Editors : UpdateSelector(new_selector, updated_by)
    \/ \E target_version \in TargetVersions : RollbackSelector(target_version)

FieldMapSpec == FieldMapInit /\ [][FieldMapNext]_vars

\* api/jobs.py: PUT /jobs/{job_id}/field-maps, bulk_upsert_field_maps, for a
\* mapping whose FieldMap row exists: the row's selector_spec is overwritten
\* and the commit stores it; selector_version and selector_history are not
\* touched
bulk_upsert_field_maps(f, selector_spec) == [f EXCEPT !.selector_spec = selector_spec]

BulkUpsert(selector_spec) ==
    /\ fm' = bulk_upsert_field_maps(fm, selector_spec)
    /\ UNCHANGED fm_frame

\* the three operations that change a selector
SelectorNext ==
    \/ \E new_selector \in Selectors, updated_by \in Editors : UpdateSelector(new_selector, updated_by)
    \/ \E target_version \in TargetVersions : RollbackSelector(target_version)
    \/ \E selector_spec \in Selectors : BulkUpsert(selector_spec)

SelectorSpec == FieldMapInit /\ [][SelectorNext]_vars

\* ------------------------------------------------------------------ session pool, several sites
\* scraping/session_manager.py, SessionLifecycleManager with persistence
\* enabled: sessions keyed by (site_domain, proxy identity), one circuit
\* breaker per site_domain, one file per session key, and the restart of the
\* process, which builds a new manager from the session directory.  Each
\* operation is one step, and the clock stands still: the calls follow each
\* other within the minute.  gone[k] observes: the session of k was removed
\* from the pool and create_session was not called for k since.

\* _circuit_breakers[site_domain] of every site kept under one key
breaker_key_shared(site_domain) == "a.com"

\* the key of _circuit_breakers that _is_circuit_open, _record_site_success
\* and _record_site_failure use for site_domain
breaker_key(site_domain) == site_domain

ManagerCall(op, d, p, had_captcha, result, refused) == [op |-> op, domain |-> d, proxy |-> p, had_captcha |-> had_captcha, result |-> result, refused |-> refused]

\* the calls other than mark_failure are counted up to MaxManagerCalls
CanCall == mgr.calls < MaxManagerCalls

\* mark_failure is called while the breakers count fewer than MaxFailures
RECURSIVE SumFailures(_, _)
SumFailures(breakers, ds) ==
    IF ds = {} THEN 0
    ELSE LET d == CHOOSE x \in ds : TRUE
         IN  breakers[d].consecutive_failures + SumFailures(breakers, ds \ {d})
FailuresCounted == SumFailures(mgr.breakers, Domains)

\* __init__ at a restart of the process: _load_persisted_sessions
load_persisted_sessions(files) ==
    [k \in Keys |->
        IF files[k].present /\ now - files[k].first_seen_time <= 60 * MAX_PERSISTED_AGE_HOURS
        THEN files[k] ELSE NoBrowserSession]

\* the session directory _load_persisted_sessions leaves
files_after_load(files) ==
    [k \in Keys |->
        IF files[k].present /\ now - files[k].first_seen_time > 60 * MAX_PERSISTED_AGE_HOURS
        THEN NoBrowserSession ELSE files[k]]

\* the session directory at the start of the first process: empty, or with
\* the file an earlier process wrote at a mark_success
StartFiles ==
    {[k \in Keys |-> IF k = <<"a.com", "default">> THEN f ELSE NoBrowserSession] :
        f \in {NoBrowserSession, session_after_success(NewBrowserSession, FALSE)}}

ManagerGet(d, p) ==
    LET k == <<d, p>>
        c == is_circuit_open(mgr.breakers[breaker_key(d)])
        session == mgr.sessions[k]
        keep == ~c.open /\ session.present /\ session.total_uses < HARD_CAP_USES
                /\ trust_of(session) >= 2 * TRUST_DEGRADED
        drop == ~c.open /\ session.present /\ ~keep
    IN  /\ CanCall
        /\ mgr' = [mgr EXCEPT !.breakers[breaker_key(d)] = c.breaker,
                              !.sessions[k] = IF drop THEN NoBrowserSession ELSE @,
                              !.gone[k] = @ \/ drop,
                              !.calls = @ + 1,
                              !.last = ManagerCall("get", d, p, FALSE, IF keep THEN "session" ELSE "none", c.open)]
        /\ UNCHANGED <<now, mgr_frame>>

ManagerCreate(d, p) ==
    /\ CanCall
    /\ mgr' = [mgr EXCEPT !.sessions[<<d, p>>] = NewBrowserSession,
                          !.gone[<<d, p>>] = FALSE,
                          !.calls = @ + 1,
                          !.last = ManagerCall("create", d, p, FALSE, "session", FALSE)]
    /\ UNCHANGED <<now, mgr_frame>>

\* mark_success: the pooled session is updated and written to its file
\* (_persist_session); the site's breaker is reset
ManagerMarkSuccess(d, p, had_captcha) ==
    LET k == <<d, p>>
        session == session_after_success(mgr.sessions[k], had_captcha) IN
    /\ CanCall
    /\ mgr.sessions[k].present => mgr.sessions[k].total_uses < MaxMarks
    /\ mgr' = [mgr EXCEPT !.sessions[k] = IF @.present THEN session ELSE @,
                          !.files[k] = IF mgr.sessions[k].present THEN session ELSE @,
                          !.breakers[breaker_key(d)] = record_site_success(@),
                          !.calls = @ + 1,
                          !.last = ManagerCall("mark_success", d, p, had_captcha, "none", FALSE)]
    /\ UNCHANGED <<now, mgr_frame>>

ManagerMarkFailure(d, p) ==
    LET k == <<d, p>>
        session == session_after_failure(mgr.sessions[k])
        retire == mgr.sessions[k].present /\ ~session.present IN
    /\ FailuresCounted < MaxFailures
    /\ mgr' = [mgr EXCEPT !.sessions[k] = IF @.present THEN session ELSE @,
                          !.gone[k] = @ \/ retire,
                          !.breakers[breaker_key(d)] = record_site_failure(@),
                          !.last = ManagerCall("mark_failure", d, p, FALSE, IF retire THEN "retired" ELSE "none", FALSE)]
    /\ UNCHANGED <<now, mgr_frame>>

\* the process is started again: a new manager, its pool loaded from the files
ManagerRestart ==
    /\ CanCall
    /\ mgr' = [mgr EXCEPT !.sessions = load_persisted_sessions(mgr.files),
                          !.files = files_after_load(mgr.files),
                          !.breakers = [d \in Domains |-> NoBreaker],
                          !.calls = @ + 1,
                          !.last = ManagerCall("init", "a.com", "default", FALSE, "none", FALSE)]
    /\ UNCHANGED <<now, mgr_frame>>

ManagerInit ==
    /\ AuxIdle
    /\ RunInit
    /\ PolicyIdle
    /\ StatsIdle
    /\ PoolIdle
    /\ ConcIdle
    /\ DiskIdle
    /\ FieldMapIdle
    /\ \E files \in StartFiles :
          mgr = [NewManager EXCEPT !.files = files_after_load(files),
                                   !.sessions = load_persisted_sessions(files)]

ManagerNext ==
    \/ \E k \in Keys : ManagerGet(k[1], k[2])
    \/ \E k \in Keys : ManagerCreate(k[1], k[2])
    \/ \E k \in Keys, had_captcha \in BOOLEAN : ManagerMarkSuccess(k[1], k[2], had_captcha)
    \/ \E k \in Keys : ManagerMarkFailure(k[1], k[2])
    \/ ManagerRestart

ManagerSpec == ManagerInit /\ [][ManagerNext]_vars

\* ------------------------------------------------------------------ block classifier
\* app/services/block_classifier.py: BlockClassifier.should_pause_for_intervention,
\* a function of its four arguments.  An error message is the set of the words
\* of Mentions that occur in its lower-cased text ("recaptcha" contains
\* "captcha"), the parameter error_message is called message here, and
\* response_code None is NoCode.

NoCode == 0
ResponseCodes == {NoCode, 200, 401, 403, 429, 500}
AccessClasses == {"public", "infra", "human"}
NoPause == <<FALSE, "none", "none">>

ClassifierInputs ==
    [pc : {"input"}, response_code : ResponseCodes, error_message : SUBSET Mentions,
     has_session : BOOLEAN, domain_access_class : AccessClasses, result : {NoPause}]

\* the same function with the CAPTCHA test moved in front of the status tests
should_pause_for_intervention_captcha_first(response_code, message, has_session, domain_access_class) ==
    IF "captcha" \in message THEN <<TRUE, "captcha_solve", "CAPTCHA challenge detected">>
    ELSE IF response_code = 403
    THEN IF has_session THEN <<TRUE, "login_refresh", "Session expired or invalid (403 with session)">>
         ELSE <<TRUE, "manual_access", "Hard block (403, no session)">>
    ELSE IF response_code = 401 THEN <<TRUE, "login_refresh", "Authentication required (401)">>
    ELSE IF "cloudflare" \in message \/ "challenge" \in message
    THEN <<TRUE, "manual_access", "Cloudflare challenge detected">>
    ELSE IF "no items extracted" \in message /\ response_code = 200
            /\ domain_access_class # "public"
    THEN <<TRUE, "selector_fix", "No items extracted (possible selector drift)">>
    ELSE NoPause

should_pause_for_intervention(response_code, message, has_session, domain_access_class) ==
    IF response_code = 403
    THEN IF has_session THEN <<TRUE, "login_refresh", "Session expired or invalid (403 with session)">>
         ELSE <<TRUE, "manual_access", "Hard block (403, no session)">>
    ELSE IF response_code = 401 THEN <<TRUE, "login_refresh", "Authentication required (401)">>
    ELSE IF "captcha" \in message THEN <<TRUE, "captcha_solve", "CAPTCHA challenge detected">>
    ELSE IF "cloudflare" \in message \/ "challenge" \in message
    THEN <<TRUE, "manual_access", "Cloudflare challenge detected">>
    ELSE IF "no items extracted" \in message /\ response_code = 200
    THEN IF domain_access_class # "public"
         THEN <<TRUE, "selector_fix", "No items extracted (possible selector drift)">>
         ELSE NoPause
    ELSE IF response_code = 429 THEN NoPause
    ELSE IF response_code = NoCode \/ "timeout" \in message \/ "network" \in message
    THEN NoPause
    ELSE NoPause

ClassifierInit ==
    /\ RunInit
    /\ PolicyIdle
    /\ StatsIdle
    /\ PoolIdle
    /\ ConcIdle
    /\ DiskIdle
    /\ FieldMapIdle
    /\ ManagerIdle
    /\ DomainConfigIdle
    /\ RequestsIdle
    /\ bc \in ClassifierInputs

Classify ==
    /\ bc.pc = "input"
    /\ bc' = [bc EXCEPT !.pc = "classified",
                        !.result = should_pause_for_intervention(bc.response_code, bc.error_message, bc.has_session, bc.domain_access_class)]
    /\ UNCHANGED bc_frame

ClassifierNext == Classify

ClassifierSpec == ClassifierInit /\ [][ClassifierNext]_vars

\* ------------------------------------------------------------------ domain learning
\* app/services/session_manager.py: SessionManager.update_domain_stats for one
\* domain.  The domain_configs row is absent or was inserted with the column
\* defaults of app/models/domain_config.py (total_attempts 0,
\* successful_attempts 0, block_rate_403 0.0).  Rates are exact fractions;
\* engine_stats and updated_at are left out.

DomainCodes == {NoCode, 200, 403, 429}

SeedConfigs ==
    {[NoDomainConfig EXCEPT !.present = TRUE, !.access_class = a, !.requires_session = s] :
        a \in AccessClasses, s \in {"no", "optional", "required"}}

\* (block_rate_403 * (total_attempts - 1) + 1) / total_attempts
rate_after_403(rate, total_attempts) == <<rate[1] * (total_attempts - 1) + rate[2], rate[2] * total_attempts>>

\* block_rate_403 > 0.8
above_reclassify_threshold(rate) == 5 * rate[1] > 4 * rate[2]

\* the row update_domain_stats commits for a row it found
update_domain_stats(config, success, response_code, had_session) ==
    LET total == config.total_attempts + 1
        rate == IF response_code = 403 THEN rate_after_403(config.block_rate_403, total)
                ELSE config.block_rate_403
        reclassify == above_reclassify_threshold(rate) /\ ~had_session
    IN  [config EXCEPT !.total_attempts = total,
                       !.successful_attempts = IF success THEN @ + 1 ELSE @,
                       !.block_rate_403 = rate,
                       !.requires_session = IF reclassify THEN "required" ELSE @,
                       !.access_class = IF reclassify THEN "human" ELSE @]

DomainConfigInit ==
    /\ RunInit
    /\ PolicyIdle
    /\ StatsIdle
    /\ PoolIdle
    /\ ConcIdle
    /\ DiskIdle
    /\ FieldMapIdle
    /\ ManagerIdle
    /\ ClassifierIdle
    /\ RequestsIdle
    /\ dcfg \in SeedConfigs \cup {NoDomainConfig}

\* update_domain_stats, session_manager.py:192-233, the row exists
UpdateDomainStats(success, response_code, had_session) ==
    /\ dcfg.present
    /\ dcfg.total_attempts < MaxAttempts
    /\ dcfg' = [update_domain_stats(dcfg, success, response_code, had_session)
                   EXCEPT !.recorded_403 = IF response_code = 403 THEN @ + 1 ELSE @]
    /\ UNCHANGED dcfg_frame

\* update_domain_stats, session_manager.py:192-205, no row: DomainConfig(...)
\* sets no counter (the column defaults are applied by the INSERT), so
\* `config.total_attempts += 1` is None + 1, a TypeError before the commit:
\* no row is written
NewConfigRaises ==
    /\ ~dcfg.present
    /\ dcfg.raised < MaxAttempts
    /\ dcfg' = [dcfg EXCEPT !.raised = @ + 1]
    /\ UNCHANGED dcfg_frame

DomainConfigNext ==
    \/ \E success \in BOOLEAN, response_code \in DomainCodes, had_session \in BOOLEAN :
          UpdateDomainStats(success, response_code, had_session)
    \/ NewConfigRaises

DomainConfigSpec == DomainConfigInit /\ [][DomainConfigNext]_vars

\* ------------------------------------------------------------------ claims

\* the edges of the Run state diagram
StateDiagram ==
    {<<"queued", "running">>, <<"running", "completed">>, <<"running", "failed">>,
     <<"running", "waiting_for_human">>, <<"waiting_for_human", "queued">>}

\* C2: every change of a Run's status follows an edge of the state diagram; in
\* particular an execute_run handed a Run that is not queued leaves its status
\* alone.
C2_StatusFollowsDiagram ==
    [][\A r \in Runs :
          (status[r] # "absent" /\ status'[r] # status[r])
              => <<status[r], status'[r]>> \in StateDiagram]_vars

\* C3: every execute_run invocation eventually returns, with the Run in
\* completed, failed or waiting_for_human.
C3_InvocationReturns ==
    \A w \in Workers :
        (wk[w].pc = "start") ~>
            (wk[w].pc = "done"
                /\ status[wk[w].run] \in {"completed", "failed", "waiting_for_human"})

\* C4: one invocation executes an engine adapter at most max_escalations times.
C4_AtMostThreeExecutions ==
    \A w \in Workers : wk[w].execs <= max_escalations

\* C5: an invocation whose adapter returned a non-empty list of items ends
\* with the Run completed and its Records stored.
C5_ItemsEndCompleted ==
    \A w \in Workers :
        (wk[w].pc = "done" /\ wk[w].got_items)
            => (status[wk[w].run] = "completed" /\ Len(records[wk[w].run]) > 0)

\* C8: an invocation that met a pausable condition (here: the probe's 401/403
\* while a stored session is in use, on a Job that requires auth) does not
\* fail the Run; it ends with the Run in waiting_for_human and an intervention
\* created for it.
C8_PausableEndsWaiting ==
    \A w \in Workers :
        (wk[w].pc = "done" /\ wk[w].pausable)
            => /\ status[wk[w].run] = "waiting_for_human"
               /\ \E i \in DOMAIN interventions : interventions[i].run_id = wk[w].run

\* the closed set of failure kinds
FailureKinds ==
    {"blocked", "rate_limited", "timeout", "network", "bad_response",
     "extraction_failed", "max_escalations", "unknown"}

\* C11: every Run with status failed carries a failure_code of the closed set
\* and an error_message that is not null.
C11_FailedCarriesKind ==
    \A r \in Runs :
        status[r] = "failed"
            => (failure_code[r] \in FailureKinds /\ error_message[r] # "none")

\* a Run failed by a classified adapter exception
C11_Witness ==
    \E r \in Runs : status[r] = "failed" /\ failure_code[r] \in {"timeout", "network"}

\* the entries of an attempts log that stand for an engine execution
EngineEntries(attempts) ==
    {i \in DOMAIN attempts : \E t \in DOMAIN TIER_ORDER : attempts[i].engine = TIER_ORDER[t]}

\* C12: when an invocation ends, its engine-attempts log holds exactly one
\* entry per engine execution of the invocation.
C12_OneEntryPerExecution ==
    \A w \in Workers :
        (wk[w].pc = "done" /\ wk[w].execs < MaxExec)
            => Cardinality(EngineEntries(wk[w].attempts)) = wk[w].execs

\* C13: with a forced engine (engine_mode other than auto) the policy yields
\* no escalation, whatever the HTML, the status code and the extraction
\* count: the loop goes on with the forced engine.
C13_ForcedNeverEscalates ==
    (pol.phase = "decided" /\ pol.engine_mode # "auto")
        => (~pol.escalated /\ pol.next_engine = pol.engine_mode)

\* a forced http engine met a 403: should_escalate_from_http proposed
\* playwright and the loop stayed on http
C13_Witness ==
    /\ pol.phase = "decided"
    /\ pol.engine_mode = "http"
    /\ pol.status_code = 403
    /\ pol.decision.to_engine = "playwright"
    /\ ~pol.escalated

\* C14: every DomainStats row has successful_attempts + failed_attempts =
\* total_attempts and, with total_attempts > 0, success_rate =
\* successful_attempts / total_attempts, between 0 and 1.
C14_CountersAgree ==
    \A e \in StatEngines :
        stats[e].present =>
            /\ stats[e].successful_attempts + stats[e].failed_attempts
                  = stats[e].total_attempts
            /\ stats[e].total_attempts > 0 =>
                  rate_equal(stats[e].success_rate,
                             <<stats[e].successful_attempts, stats[e].total_attempts>>)
            /\ 0 <= stats[e].success_rate[1]
            /\ stats[e].success_rate[1] <= stats[e].success_rate[2]

\* record_run_outcome calls made for an engine and finished
CallsFinished(e) == made[<<e, TRUE>>] + made[<<e, FALSE>>] + raised[e]

\* C15: once every record_run_outcome call has finished, no update is lost:
\* the key of each engine that was recorded for has its row, and the row's
\* total_attempts went up by the number of calls.
C15_NoLostUpdate ==
    (\A w \in Workers : sw[w].pc = "idle") =>
        \A e \in StatEngines :
            CallsFinished(e) > 0 =>
                /\ stats[e].present
                /\ stats[e].total_attempts = stats0[e].total_attempts + CallsFinished(e)

\* get_biased_initial_engine answers a non-HTTP engine because HTTP has a low
\* success rate
HttpLowSuccess(tbl) ==
    get_biased_initial_engine(tbl, "auto") = <<"playwright", "domain_bias:http_low_success">>

\* C16: after one or more successful HTTP outcomes, and no failed one, were
\* recorded on top of any earlier statistics, the bias does not answer "HTTP
\* low success" unless it did so before them.
C16_BiasMonotone ==
    (/\ made[<<"http", TRUE>>] >= 1
     /\ made[<<"http", FALSE>>] = 0
     /\ ~HttpLowSuccess(stats0))
        => ~HttpLowSuccess(stats)

\* HTTP had four failures and no success, too few attempts to bias on; one
\* success later it has five attempts and a success rate of exactly 20%
C16_Witness ==
    /\ made[<<"http", TRUE>>] = 1
    /\ made[<<"http", FALSE>>] = 0
    /\ stats0["http"] = StatsRow(4, 0)
    /\ stats["http"] = StatsRow(5, 1)
    /\ ~HttpLowSuccess(stats)

\* the hard-retire conditions of a session, and what a session needs to be
\* handed out
HardRetire(s) ==
    \/ age_minutes(s) > MAX_AGE_MINUTES
    \/ s.total_uses > HARD_CAP_USES
    \/ s.failure_streak >= MAX_FAILURE_STREAK
Qualifies(s) == trust_of(s) >= 2 * TRUST_DEGRADED /\ ~HardRetire(s)

\* C17 as stated: get returns a session only if its trust, computed at that
\* moment, is at least 40 and no hard-retire condition holds, and a stored
\* session that does not qualify is removed from the pool by that get, which
\* returns null.  (`last' is the call just made, with the session it found.)
C17_UnqualifiedAlwaysRemoved ==
    last.op = "get" =>
        /\ last.result = "session" => Qualifies(last.session)
        /\ (last.session.present /\ ~Qualifies(last.session)) =>
                (last.result = "none" /\ ~pool[last.key].present)

\* C17, amended: get returns a session only if its trust is at least 40 and no
\* hard-retire condition holds; a get that finds the circuit of the site
\* closed removes a stored session that does not qualify and returns null
\* (a get that finds the circuit open returns null and leaves the pool alone).
C17_ReturnedQualifies ==
    last.op = "get" =>
        /\ last.result = "session" => Qualifies(last.session)
        /\ (last.session.present /\ ~Qualifies(last.session)
                /\ ~last.circuit_open) =>
                (last.result = "none" /\ ~pool[last.key].present)
        /\ last.circuit_open =>
                (last.result = "none" /\ pool[last.key] = last.session)

\* a get has just retired a session whose age and uses are within the hard
\* limits and whose trust is below 40
C17_Witness ==
    /\ last.op = "get"
    /\ last.session.present
    /\ ~HardRetire(last.session)
    /\ trust_of(last.session) > 0
    /\ trust_of(last.session) < 2 * TRUST_DEGRADED
    /\ last.result = "none"
    /\ ~pool[last.key].present

\* C18: for fixed failure streak, uses and minutes since the last success,
\* the trust score does not grow with the age of the session: age1 <= age2
\* implies trust(age1) >= trust(age2), across the start of the decay at 60
\* minutes and the hard limit at 120 minutes too.
C18_TrustMonotoneInAge ==
    (tr.scored /\ tr.age1 <= tr.age2) => tr.trust1 >= tr.trust2

\* a session scored before the decay starts and after, short of the hard
\* limit: the later score is lower and not yet zero
C18_Witness ==
    /\ tr.scored
    /\ tr.age1 <= 60
    /\ tr.age2 > 60
    /\ tr.age2 <= MAX_AGE_MINUTES
    /\ tr.trust1 > tr.trust2
    /\ tr.trust2 > 0

\* C19: for a pooled session with failure_streak = 2, one more mark_failure
\* for its key removes the session from the pool and adds one to the
\* consecutive-failure count of the site's circuit breaker, and every get for
\* the key from then on returns null until create is called for the key.
C19_ThirdFailureRetires ==
    /\ (last.op = "mark_failure" /\ last.session.present
            /\ last.session.failure_streak = 2) =>
            /\ ~pool[last.key].present
            /\ retired[last.key]
            /\ circuit.present
            /\ circuit.consecutive_failures = last.failures + 1
    /\ (last.op = "get" /\ retired[last.key]) => last.result = "none"

\* a get for the key of a session the third failure retired, with the
\* circuit closed, has returned null
C19_Witness ==
    /\ last.op = "get"
    /\ retired[last.key]
    /\ ~last.circuit_open
    /\ last.result = "none"
    /\ circuit.consecutive_failures >= MAX_FAILURE_STREAK

\* C20: after 10 mark_failure calls in a row for the site, with no
\* mark_success between them, every get for the site, whatever the proxy
\* identity, returns null because the circuit is open, even if a trusted
\* session is pooled under the key.
C20_OpenCircuitBlocksGet ==
    (last.op = "get" /\ in_a_row >= CIRCUIT_FAILURE_THRESHOLD) =>
        /\ last.result = "none"
        /\ last.circuit_open
        /\ circuit.is_open

\* a get after 10 failures in a row has returned null although the session
\* pooled under its key qualifies for reuse
C20_Witness ==
    /\ last.op = "get"
    /\ in_a_row >= CIRCUIT_FAILURE_THRESHOLD
    /\ pool[last.key].present
    /\ Qualifies(pool[last.key])
    /\ last.result = "none"
    /\ last.circuit_open

\* C21: once the circuit of the site is open (10 failures in a row), when
\* more than CIRCUIT_COOLDOWN_MINUTES have passed since the last mark_failure
\* the circuit closes, and a get again returns a pooled session that
\* qualifies for reuse.
C21_CooldownClosesCircuit ==
    (/\ last.op = "get"
     /\ in_a_row >= CIRCUIT_FAILURE_THRESHOLD
     /\ circuit.last_failure_time # NoTime
     /\ now - circuit.last_failure_time > CIRCUIT_COOLDOWN_MINUTES
     /\ last.session.present
     /\ Qualifies(last.session)) =>
        /\ last.result = "session"
        /\ ~last.circuit_open
        /\ ~circuit.is_open

\* the program points at which a thread is between two accesses of the
\* request total, and of the site's circuit breaker
InRequestsUpdate(t) == th[t].pc = "store_requests"
InBreakerUpdate(t) == th[t].pc \in {"breaker_create", "load_failures", "store_failures"}
AtBreakerAccess(t) ==
    th[t].pc \in {"circuit_check", "site_success", "breaker_check",
                  "breaker_create", "load_failures", "store_failures"}

\* C22: the mutations of the pool's state are serialized by its lock.  No
\* update is lost: once every call has returned, the request total is the
\* number of mark calls made and, when no mark_success was among them, the
\* consecutive-failure count is the number of mark_failure calls.  And no
\* call accesses the request total or the circuit breaker while another
\* call is in the middle of changing it.
C22_SerializedByLock ==
    /\ (\A t \in Threads : th[t].pc = "idle") =>
          /\ total_requests = finished.mark_failure + finished.mark_success
          /\ finished.mark_success = 0 =>
                circuit.consecutive_failures = finished.mark_failure
    /\ \A t, u \in Threads :
          t # u =>
             /\ ~(InRequestsUpdate(t) /\ th[u].pc \in {"load_requests", "store_requests"})
             /\ ~(InBreakerUpdate(t) /\ AtBreakerAccess(u))

\* C23: a session that was persisted and loaded back equals the original in
\* every field and is pooled under the same key (domain, proxy or "default").
C23_RoundTrip ==
    (dpc = "restarted" /\ disk # NoFiles) =>
        /\ session_key(orig) \in DOMAIN loaded
        /\ loaded[session_key(orig)] = orig

\* a session with cookies, a storage state and a viewport, first seen before
\* its last success, has been loaded by a manager started 23 hours later
C23_Witness ==
    /\ dpc = "restarted"
    /\ now > 0
    /\ session_key(orig) \in DOMAIN loaded
    /\ loaded[session_key(orig)] = orig
    /\ orig["cookies"].items # <<>>
    /\ orig["storage_state"].k = "dict"
    /\ orig["viewport"].k = "dict"
    /\ orig["proxy_identity"].k = "None"
    /\ orig["first_seen_time"] # orig["last_success_time"]

\* C24: in every reachable state every InterventionTask has a status in
\* {pending, in_progress, completed, expired, cancelled}; no operation,
\* resolving a task included, stores another value.
C24_StatusInClosedSet ==
    \A i \in DOMAIN interventions : interventions[i].status \in InterventionStatus

\* C26: one fixed relation between the length of selector_history and
\* selector_version holds in every state (here: the history is one shorter
\* than the version, or else always as long as it), and every step that
\* changes the FieldMap appends exactly one history entry and raises
\* selector_version by exactly one.
HistoryExcludesCurrent == Len(fm.selector_history) = int(fm.selector_version) - 1
HistoryIncludesCurrent == Len(fm.selector_history) = int(fm.selector_version)
OneEntryOneVersion == Len(fm'.selector_history) = Len(fm.selector_history) + 1 /\ int(fm'.selector_version) = int(fm.selector_version) + 1
C26_HistoryTracksVersion == ([]HistoryExcludesCurrent \/ []HistoryIncludesCurrent) /\ [][OneEntryOneVersion]_fm
C26_Witness == /\ int(fm.selector_version) = MaxVersion
               /\ \E i \in 1..Len(fm.selector_history) : fm.selector_history[i].rollback_to # "none"
               /\ \E i \in 1..Len(fm.selector_history) : fm.selector_history[i].updated_by = "user"

\* C27: for a Job on a human domain with no stored session whose request by
\* the http engine is answered 403, the Run ends in waiting_for_human with
\* exactly one InterventionTask, of type manual_access and priority high, and
\* with no Record.
HumanNoSession(r) == jobs[r].config.present /\ jobs[r].config.access_class = "human" /\ ~get_valid_session(vault[r])
TasksOfType(r, type) == {i \in DOMAIN interventions : interventions[i].run_id = r /\ interventions[i].type = type}
C27_Http403Pauses ==
    \A w \in Workers, r \in Runs :
        (wk[w].run = r /\ wk[w].http_403 /\ HumanNoSession(r))
            ~> /\ status[r] = "waiting_for_human"
               /\ Cardinality(TasksOfType(r, "manual_access")) = 1
               /\ \A i \in TasksOfType(r, "manual_access") : interventions[i].priority = "high"
               /\ Cardinality({i \in DOMAIN interventions : interventions[i].run_id = r}) = 1
               /\ records[r] = <<>>

\* C28: for a Job with the one required field email, of type email, whose
\* adapter returned the item with the raw value "john at example dot com",
\* the Run ends completed with one Record (email null, errors
\* [invalid_email_format]) and exactly one InterventionTask of type
\* field_confirm.
InvalidEmailRecord == [email |-> "null", errors |-> <<"invalid_email_format">>]
C28_InvalidEmailCompletes ==
    \A w \in Workers, r \in Runs :
        (wk[w].run = r /\ wk[w].items = "items")
            ~> /\ status[r] = "completed"
               /\ records[r] = <<InvalidEmailRecord>>
               /\ Cardinality(TasksOfType(r, "field_confirm")) = 1

\* C29: a 429 never pauses the Run, and a 429 on the terminal engine (the
\* provider: raise_for_status() raises HTTPStatusError, which of the modelled
\* answers only 429 does) ends the invocation with the Run failed and its
\* failure_code rate_limited.
C29_RateLimitedFailsRun ==
    \A w \in Workers :
        (wk[w].exc = "HTTPStatusError")
            => /\ status[wk[w].run] # "waiting_for_human"
               /\ (wk[w].pc = "done"
                     => status[wk[w].run] = "failed" /\ failure_code[wk[w].run] = "rate_limited")

\* C30: the HTTP->browser decision checks its triggers in one fixed priority
\* for every input: a status in {401, 403, 429} yields blocked_status_code
\* whatever the HTML holds; otherwise an SPA marker yields js_app_detected;
\* otherwise zero extracted items with required selectors > 0 yields
\* extraction_confidence_fail; otherwise robots noindex yields robots_noindex;
\* otherwise there is no escalation decision.
HttpTriggers == <<"blocked_status_code", "js_app_detected", "extraction_confidence_fail", "robots_noindex">>
Triggered(p, reason) ==
    IF reason = "blocked_status_code" THEN p.status_code \in {401, 403, 429}
    ELSE IF reason = "js_app_detected" THEN p.html.js_marker
    ELSE IF reason = "extraction_confidence_fail" THEN p.extracted_count = 0 /\ p.required_selectors > 0
    ELSE p.html.robots_noindex
C30_TriggersInPriority ==
    (pol.phase = "decided" /\ pol.current_engine = "http")
        => /\ \A i \in DOMAIN HttpTriggers :
                (Triggered(pol, HttpTriggers[i]) /\ \A j \in 1..(i - 1) : ~Triggered(pol, HttpTriggers[j]))
                    => pol.decision = [to_engine |-> "playwright", reason |-> HttpTriggers[i]]
           /\ (\A i \in DOMAIN HttpTriggers : ~Triggered(pol, HttpTriggers[i])) => pol.decision = NoDecision

\* a 403 whose HTML holds an SPA marker and robots noindex, with no item
\* extracted, was decided as blocked_status_code
C30_Witness ==
    /\ pol.phase = "decided"
    /\ pol.current_engine = "http"
    /\ pol.status_code = 403
    /\ pol.html.js_marker
    /\ pol.html.robots_noindex
    /\ pol.extracted_count = 0
    /\ pol.required_selectors > 0
    /\ pol.decision.reason = "blocked_status_code"

\* C31: in auto mode the current engine of the loop only ever moves one step
\* up the order http < playwright < provider: the engine the loop goes on
\* with is the current one or the next tier, never a cheaper one and never
\* one beyond provider, and from provider there is no escalation.
TierIndex(engine) == CHOOSE i \in DOMAIN TIER_ORDER : TIER_ORDER[i] = engine
C31_OneStepUp ==
    /\ [](pol.engine_mode = "auto" /\ pol.phase = "decided"
            => /\ pol.next_engine \in {TIER_ORDER[i] : i \in DOMAIN TIER_ORDER}
               /\ TierIndex(pol.next_engine) - TierIndex(pol.current_engine) = (IF pol.escalated THEN 1 ELSE 0)
               /\ (pol.current_engine = "provider" => ~pol.escalated))
    /\ [][pol.engine_mode = "auto" /\ pol'.engine_mode = "auto"
            => TierIndex(pol'.current_engine) - TierIndex(pol.current_engine) \in {0, 1}]_pol

\* the loop, escalated from http to playwright before, decided to go on to provider
C31_Witness ==
    /\ pol.engine_mode = "auto"
    /\ pol.phase = "decided"
    /\ pol.current_engine = "playwright"
    /\ pol.escalated
    /\ pol.next_engine = "provider"

\* C32: for every state of the statistics and every engine_mode the bias
\* answers: the forced engine, without a reason, when engine_mode is not
\* auto; else playwright with a reason when HTTP has at least 5 attempts and
\* a success rate below 20%; else http with a reason when HTTP has at least 5
\* attempts and a success rate above 85%; else playwright when playwright has
\* at least 5 attempts and a success rate above 85%; else http, without a
\* reason.
EnoughAttempts(row) == row.present /\ row.total_attempts >= 5
RateBelow20(row) == row.success_rate[1] * 5 < row.success_rate[2]
RateAbove85(row) == row.success_rate[1] * 20 > 17 * row.success_rate[2]
C33_SuccessResets ==
    [][/\ (mgr'.last.op = "mark_success" /\ mgr.sessions[<<mgr'.last.domain, mgr'.last.proxy>>].present)
            => LET k == <<mgr'.last.domain, mgr'.last.proxy>>
                   d == mgr'.last.domain IN
               /\ mgr'.sessions[k].present
               /\ mgr'.sessions[k].failure_streak = 0
               /\ mgr'.sessions[k].total_uses = mgr.sessions[k].total_uses + 1
               /\ mgr'.sessions[k].captcha_count = mgr.sessions[k].captcha_count + (IF mgr'.last.had_captcha THEN 1 ELSE 0)
               /\ mgr'.breakers[d].consecutive_failures = 0
               /\ ~mgr'.breakers[d].is_open
       /\ (mgr.last.op = "mark_success" /\ mgr'.last.op = "get" /\ mgr'.last.domain = mgr.last.domain)
            => ~mgr'.last.refused]_mgr

\* a session with a failure on it and an open breaker of its site was marked
\* successful, with a captcha
C33_Witness ==
    /\ mgr.last.op = "mark_success"
    /\ mgr.last.had_captcha
    /\ mgr.sessions[<<mgr.last.domain, mgr.last.proxy>>].present
    /\ mgr.sessions[<<mgr.last.domain, mgr.last.proxy>>].captcha_count = 1
    /\ mgr.sessions[<<mgr.last.domain, mgr.last.proxy>>].total_uses >= 2
    /\ mgr.breakers[mgr.last.domain].present
    /\ mgr.breakers[mgr.last.domain].last_failure_time # NoTime

\* C38: with persistence enabled a retirement is durable: once a session was
\* removed from the pool, a get for its key returns no session, before and
\* after a restart of the process, until create_session is called for the key.
C38_RetirementDurable ==
    (mgr.last.op = "get" /\ mgr.gone[<<mgr.last.domain, mgr.last.proxy>>])
        => mgr.last.result = "none"

\* C40: mark_failure and mark_success for a site leave the sessions and the
\* breakers of every other site as they are; a get is refused only when the
\* breaker of its own site counts CIRCUIT_FAILURE_THRESHOLD failures or more;
\* and a mark_failure, under whatever proxy identity, adds one to the one
\* breaker of its site.
C40_OtherSitesUntouched ==
    /\ [](mgr.last.op = "get" /\ mgr.last.refused
            => mgr.breakers[mgr.last.domain].consecutive_failures >= CIRCUIT_FAILURE_THRESHOLD)
    /\ [][/\ mgr'.last.op \in {"mark_failure", "mark_success"}
                => /\ \A k \in Keys : k[1] # mgr'.last.domain => mgr'.sessions[k] = mgr.sessions[k]
                   /\ \A d \in Domains : d # mgr'.last.domain => mgr'.breakers[d] = mgr.breakers[d]
          /\ mgr'.last.op = "mark_failure"
                => mgr'.breakers[mgr'.last.domain].consecutive_failures
                     = mgr.breakers[mgr'.last.domain].consecutive_failures + 1]_mgr

\* a.com's breaker counts 10 failures, made under both proxy identities, and
\* a get for b.com handed out b.com's session
C40_Witness ==
    /\ mgr.last.op = "get"
    /\ mgr.last.domain = "b.com"
    /\ mgr.last.result = "session"
    /\ mgr.breakers["a.com"].consecutive_failures >= CIRCUIT_FAILURE_THRESHOLD
    /\ mgr.gone[<<"a.com", "default">>]
    /\ ~mgr.breakers["b.com"].present

\* C34, as stated: each rule of the classifier's table holds for every input
\* it names, whatever else the input has: 403 with a session pauses as
\* login_refresh, 403 without as manual_access, 401 as login_refresh, a
\* message mentioning captcha as captcha_solve, one mentioning Cloudflare or a
\* challenge as manual_access, no items extracted on a 200 of a non-public
\* domain as selector_fix, and a 429, a network error or a timeout never pauses.
Classified == bc.pc = "classified"
Paused(type) == bc.result[1] /\ bc.result[2] = type
NetworkError == bc.response_code = NoCode \/ "network" \in bc.error_message
StatusBlock == bc.response_code \in {401, 403}
MentionsCaptcha == "captcha" \in bc.error_message
MentionsChallenge == "cloudflare" \in bc.error_message \/ "challenge" \in bc.error_message
SelectorDrift ==
    /\ "no items extracted" \in bc.error_message
    /\ bc.response_code = 200
    /\ bc.domain_access_class # "public"
ProbeFailed(w) ==
    /\ wk[w].pc = "done"
    /\ wk[w].probe_result # "none"
    /\ jobs[wk[w].run].requires_auth
    /\ jobs[wk[w].run].config.requires_session = "required"
C35_ProbePausesRun ==
    \A w \in Workers :
        ProbeFailed(w)
            => /\ status[wk[w].run] = "waiting_for_human"
               /\ wk[w].execs = 0
               /\ \E i \in DOMAIN interventions :
                     /\ interventions[i].run_id = wk[w].run
                     /\ interventions[i].type =
                            IF wk[w].probe_result = "no_session" THEN "manual_access"
                            ELSE "login_refresh"

\* C36: every step that changes a FieldMap keeps each history entry as it is
\* and where it is, and a selector that the step replaces as the current one
\* is in the history afterwards; so every selector that was ever current
\* stays retrievable.
HistoryKept ==
    /\ Len(fm'.selector_history) >= Len(fm.selector_history)
    /\ \A i \in 1..Len(fm.selector_history) : fm'.selector_history[i] = fm.selector_history[i]
ReplacedIsRecorded ==
    fm'.selector_spec # fm.selector_spec
        => \E i \in 1..Len(fm'.selector_history) : fm'.selector_history[i].selector = fm.selector_spec
C36_SelectorsRetrievable == [][HistoryKept /\ ReplacedIsRecorded]_fm

\* C37: after any sequence of update_domain_stats calls for a domain,
\* block_rate_403 is the fraction of the recorded attempts whose response code
\* was 403, it lies within [0, 1], and successful_attempts is at most
\* total_attempts.
C37_BlockRateIsFraction ==
    dcfg.present =>
        /\ dcfg.block_rate_403[1] * dcfg.total_attempts = dcfg.recorded_403 * dcfg.block_rate_403[2]
        /\ 0 <= dcfg.block_rate_403[1]
        /\ dcfg.block_rate_403[1] <= dcfg.block_rate_403[2]
        /\ dcfg.successful_attempts <= dcfg.total_attempts

\* C39: of the requests to resolve one intervention, sequential or concurrent,
\* at most one is accepted and at most one resumes and re-enqueues the Run;
\* a request that is rejected as already resolved leaves the interventions,
\* the Run status and the queue as they were.
AcceptedFor(i) == {q \in Requests : rq[q].task = i /\ rq[q].answer \in {"resolved", "resumed"}}
ResumedFor(i) == {q \in Requests : rq[q].task = i /\ rq[q].answer = "resumed"}
RejectedStep == \E q \in Requests : rq[q].answer # "400" /\ rq'[q].answer = "400"
C39_ResolvedOnce ==
    /\ [](\A i \in 1..MaxTasks : Cardinality(AcceptedFor(i)) <= 1 /\ Cardinality(ResumedFor(i)) <= 1)
    /\ [][RejectedStep => UNCHANGED <<interventions, status, queue>>]_vars

====
